---- MODULE Spec2Model ----
(***************************************************************************)
(* libfc: the IPFIX message stream parser (IPFIXMessageStreamParser::parse)*)
(* driving the placement content handler (PlacementContentHandler), which  *)
(* keeps the wire-template registry and decodes data sets into placements. *)
(*                                                                         *)
(* Octets are naturals 0..255, buffers are sequences of octets, pointers   *)
(* into the message buffer are 0-based offsets.  IETemplate objects live   *)
(* in a heap indexed by address, so that pointer identity, deletion and    *)
(* address reuse are visible.  An InfoElement pointer is the canonical     *)
(* (pen, id, len) triple the information model hands out.                  *)
(***************************************************************************)
EXTENDS Integers, Sequences, FiniteSets, TLC

(***************************************************************************)
(* Bounds of the model.                                                    *)
(***************************************************************************)
\* messages (whole or truncated) the input source delivers in one session
MaxMsgs == 2

(***************************************************************************)
(* Wire-format constants (Constants.h).                                    *)
(***************************************************************************)
kIpfixVersion == 10
kIpfixMessageHeaderLen == 16
kIpfixSetHeaderLen == 4
kIpfixMinMessageLen == 16
kIpfixTemplateSetID == 2
kIpfixOptionTemplateSetID == 3
kTemplateHeaderLen == 4
kOptionsTemplateHeaderLen == 6
kFieldSpecifierLen == 4
kEnterpriseLen == 4
kIpfixVarlen == 65535
UCHAR_MAX == 255

(***************************************************************************)
(* Octet helpers.                                                          *)
(***************************************************************************)
\* the message buffer is zeroed (memset) before every header read, so an
\* octet of the buffer that no read has filled is 0
Octet(buf, off) == IF off >= 0 /\ off < Len(buf) THEN buf[off + 1] ELSE 0

decode_uint16(buf, off) == Octet(buf, off) * 256 + Octet(buf, off + 1)

decode_uint32(buf, off) ==
    ((Octet(buf, off) * 256 + Octet(buf, off + 1)) * 256
        + Octet(buf, off + 2)) * 256 + Octet(buf, off + 3)

\* true iff lo <= p <= hi
CHECK_POINTER_WITHIN_I(p, lo, hi) == lo <= p /\ p <= hi

Take(s, n) == IF n >= Len(s) THEN s ELSE SubSeq(s, 1, n)
Drop(s, n) == IF n >= Len(s) THEN <<>> ELSE SubSeq(s, n + 1, Len(s))

(***************************************************************************)
(* Finite maps (std::map) and the template heap.                           *)
(***************************************************************************)
MapPut(f, k, v) == [x \in (DOMAIN f) \cup {k} |-> IF x = k THEN v ELSE f[x]]
MapDel(f, k) == [x \in (DOMAIN f) \ {k} |-> f[x]]

\* the null pointer
NULL == 0

\* a deleted IETemplate
Freed == [live |-> FALSE, ies |-> <<>>]

\* the address operator new returns: an address that is not live.  The
\* allocator may hand out a fresh address or (reuse) one that was deleted.
NewAddress(heap, reuse) ==
    LET freed == {a \in 1..Len(heap) : ~heap[a].live}
    IN  IF reuse /\ freed # {}
        THEN CHOOSE a \in freed : \A b \in freed : a <= b
        ELSE Len(heap) + 1

HeapPut(heap, a, obj) ==
    IF a = Len(heap) + 1 THEN Append(heap, obj) ELSE [heap EXCEPT ![a] = obj]

(***************************************************************************)
(* IETemplate.                                                             *)
(***************************************************************************)
\* IETemplate::operator==: same length and the same InfoElement pointer at
\* every position (the loop stops at the first difference or when either
\* side ends; equal iff both ended)
\* a comparison that is content when either side ends
IETemplateEqFrom_prefix(l, r, i) ==
    \A k \in i..Len(l) : k <= Len(r) => l[k] = r[k]

RECURSIVE IETemplateEqFrom(_, _, _)
IETemplateEqFrom(l, r, i) ==
    IF i <= Len(l) /\ i <= Len(r)
    THEN IF l[i] # r[i] THEN FALSE ELSE IETemplateEqFrom(l, r, i + 1)
    ELSE i > Len(l) /\ i > Len(r)

IETemplateEq(l, r) == IETemplateEqFrom(l, r, 1)

(***************************************************************************)
(* PlacementTemplate.  A placement template is the set of (pen, id) pairs  *)
(* it has a destination for.                                               *)
(***************************************************************************)
IEKey(ie) == <<ie.pen, ie.id>>

\* PlacementTemplate::is_match: 0 unless every information element of the
\* placement appears in the wire template; otherwise the number of wire
\* fields the placement has a destination for
is_match(placement, ies) ==
    IF \A k \in placement : \E i \in 1..Len(ies) : IEKey(ies[i]) = k
    THEN Cardinality({i \in 1..Len(ies) : IEKey(ies[i]) \in placement})
    ELSE 0

(***************************************************************************)
(* PlacementContentHandler.  The handler object is the record d: its       *)
(* fields are the members of the class, plus                               *)
(*   heap   the IETemplate objects by address,                             *)
(*   fault  "none", or how the process died inside the handler: "assert"   *)
(*          (a failed assertion), "crash" (a null pointer dereference),    *)
(*   ret    the error the most recent callback returned ("ok" for none),   *)
(* and what an observer of the handler sees:                               *)
(*   warnings             keys of the "no placement for data set" warnings *)
(*   incomplete_warnings  keys of the "successful, but incomplete" ones    *)
(*   pcalls               start_placement/end_placement calls of the set   *)
(*   loop                 cur, length and buf_end at each turn of the      *)
(*                        record loop of the set                           *)
(*   collector            the record of a set, if any, for which the       *)
(*                        collector's start_placement or end_placement     *)
(*                        returns an error context                         *)
(*   events               the same calls, with the destination writes of   *)
(*                        execute where they happen                        *)
(*   handler_calls        unhandled_data_set calls of the set              *)
(*   lookups              find_wire_template calls of the set              *)
(*   data_id              the id of the data set (0: not a data set)       *)
(*   wire_used            the wire template the data set went on with      *)
(*   handler_ret, handler_install   what the unhandled_data_set override   *)
(*                        returned and the template it installed           *)
(*   plan                 the (wire template, placement) pair the set was  *)
(*                        decoded with, or NoPlan                          *)
(***************************************************************************)
NoPlan == [wire |-> NULL, ies |-> <<>>, placement |-> NULL, cached |-> FALSE]

Abort(d) == [d EXCEPT !.fault = "assert"]

\* InfoModel::lookupIE / add_unknown: the canonical InfoElement of
\* (pen, id, len); one pointer per triple
InfoElementPtr(pen, id, len) == [pen |-> pen, id |-> id, len |-> len]

make_template_key_noshift(d, tid) == d.observation_domain + tid

make_template_key(d, tid) == d.observation_domain * 65536 + tid

find_wire_template(d, id) ==
    IF make_template_key(d, id) \in DOMAIN d.wire_templates
    THEN d.wire_templates[make_template_key(d, id)]
    ELSE NULL

start_template_record(d, template_id, field_count, reuse) ==
    IF d.current_wire_template # NULL THEN Abort(d)
    ELSE LET a == NewAddress(d.heap, reuse)
         IN  [d EXCEPT !.current_template_id = template_id,
                       !.current_field_count = field_count,
                       !.current_field_no = 0,
                       !.current_wire_template = a,
                       !.heap = HeapPut(@, a, [live |-> TRUE, ies |-> <<>>]),
                       !.ret = "ok"]

field_specifier(d, enterprise, ie_id, ie_length, enterprise_number) ==
    IF d.current_field_no >= d.current_field_count
    THEN [d EXCEPT !.parse_is_good = FALSE, !.ret = "format_error"]
    ELSE IF ~(enterprise \/ enterprise_number = 0)
            \/ ~(~enterprise \/ enterprise_number # 0)
    THEN Abort(d)
    ELSE LET ie == InfoElementPtr(enterprise_number, ie_id, ie_length)
         IN  [d EXCEPT !.heap[d.current_wire_template].ies = Append(@, ie),
                       !.current_field_no = @ + 1,
                       !.ret = "ok"]

end_template_record_keep_cache(d) ==
    IF d.current_wire_template = NULL THEN Abort(d)
    ELSE
    LET cur == d.current_wire_template
        key == make_template_key(d, d.current_template_id)
        my_wire_template == find_wire_template(d, d.current_template_id)
        d1 == IF Len(d.heap[cur].ies) > 0
              THEN IF my_wire_template # NULL
                      /\ ~IETemplateEq(d.heap[my_wire_template].ies,
                                       d.heap[cur].ies)
                   THEN [d EXCEPT
                           !.incomplete_template_ids =
                               @ \ {d.current_template_id},
                           !.heap[d.wire_templates[key]] = Freed,
                           !.wire_templates = MapPut(@, key, cur)]
                   ELSE IF my_wire_template = NULL
                   THEN [d EXCEPT !.wire_templates = MapPut(@, key, cur)]
                   ELSE d
              ELSE d
    IN  IF d1.current_field_count # d1.current_field_no
        THEN [d1 EXCEPT !.parse_is_good = FALSE, !.ret = "format_error"]
        ELSE [d1 EXCEPT !.current_wire_template = NULL, !.ret = "ok"]

\* end_template_record that takes a record without fields for the
\* withdrawal of the template
end_template_record_withdraw(d) ==
    IF d.current_wire_template = NULL THEN Abort(d)
    ELSE
    LET cur == d.current_wire_template
        key == make_template_key(d, d.current_template_id)
        my_wire_template == find_wire_template(d, d.current_template_id)
        d1 == IF Len(d.heap[cur].ies) > 0
              THEN IF my_wire_template # NULL
                      /\ ~IETemplateEq(d.heap[my_wire_template].ies,
                                       d.heap[cur].ies)
                   THEN [d EXCEPT
                           !.incomplete_template_ids =
                               @ \ {d.current_template_id},
                           !.heap[d.wire_templates[key]] = Freed,
                           !.wire_templates = MapPut(@, key, cur),
                           !.matched_templates = MapDel(@, my_wire_template)]
                   ELSE IF my_wire_template = NULL
                   THEN [d EXCEPT !.wire_templates = MapPut(@, key, cur)]
                   ELSE d
              ELSE IF my_wire_template # NULL
              THEN [d EXCEPT
                      !.heap[d.wire_templates[key]] = Freed,
                      !.wire_templates = MapDel(@, key),
                      !.matched_templates = MapDel(@, my_wire_template)]
              ELSE d
    IN  IF d1.current_field_count # d1.current_field_no
        THEN [d1 EXCEPT !.parse_is_good = FALSE, !.ret = "format_error"]
        ELSE [d1 EXCEPT !.current_wire_template = NULL, !.ret = "ok"]

end_template_record_always_install(d) ==
    IF d.current_wire_template = NULL THEN Abort(d)
    ELSE
    LET cur == d.current_wire_template
        key == make_template_key(d, d.current_template_id)
        my_wire_template == find_wire_template(d, d.current_template_id)
        d1 == IF Len(d.heap[cur].ies) > 0
              THEN IF my_wire_template # NULL
                   THEN [d EXCEPT
                           !.incomplete_template_ids =
                               @ \ {d.current_template_id},
                           !.heap[d.wire_templates[key]] = Freed,
                           !.wire_templates = MapPut(@, key, cur),
                           !.matched_templates = MapDel(@, my_wire_template)]
                   ELSE [d EXCEPT !.wire_templates = MapPut(@, key, cur)]
              ELSE d
    IN  IF d1.current_field_count # d1.current_field_no
        THEN [d1 EXCEPT !.parse_is_good = FALSE, !.ret = "format_error"]
        ELSE [d1 EXCEPT !.current_wire_template = NULL, !.ret = "ok"]

end_template_record(d) ==
    IF d.current_wire_template = NULL THEN Abort(d)
    ELSE
    LET cur == d.current_wire_template
        key == make_template_key(d, d.current_template_id)
        my_wire_template == find_wire_template(d, d.current_template_id)
        d1 == IF Len(d.heap[cur].ies) > 0
              THEN IF my_wire_template # NULL
                      /\ ~IETemplateEq(d.heap[my_wire_template].ies,
                                       d.heap[cur].ies)
                   THEN \* overwrite: the incomplete mark is erased by the
                        \* bare template id, the old template is deleted,
                        \* its matched-template entry is erased
                        [d EXCEPT
                           !.incomplete_template_ids =
                               @ \ {d.current_template_id},
                           !.heap[d.wire_templates[key]] = Freed,
                           !.wire_templates = MapPut(@, key, cur),
                           !.matched_templates = MapDel(@, my_wire_template)]
                   ELSE IF my_wire_template = NULL
                   THEN [d EXCEPT !.wire_templates = MapPut(@, key, cur)]
                   ELSE \* duplicate: the registry keeps the older object
                        d
              ELSE d
    IN  IF d1.current_field_count # d1.current_field_no
        THEN [d1 EXCEPT !.parse_is_good = FALSE, !.ret = "format_error"]
        ELSE [d1 EXCEPT !.current_wire_template = NULL, !.ret = "ok"]

\* the field specifiers of one template record; cur is left behind the
\* last specifier read, ret is the error that ended the record early
RECURSIVE field_specifiers(_, _, _, _, _, _, _, _)
field_specifiers(d, msg, cur, set_end, field, field_count, is_options_set, scope_field_count) ==
    IF d.fault # "none" \/ field >= field_count
    THEN [d |-> d, cur |-> cur]
    ELSE IF ~CHECK_POINTER_WITHIN_I(cur + kFieldSpecifierLen, cur, set_end)
    THEN [d |-> [d EXCEPT !.ret = "long_fieldspec"], cur |-> cur]
    ELSE
    LET raw == decode_uint16(msg, cur)
        ie_length == decode_uint16(msg, cur + 2)
        enterprise == raw >= 32768
        ie_id == raw % 32768
    IN  IF enterprise
           /\ ~CHECK_POINTER_WITHIN_I(
                  cur + kFieldSpecifierLen + kEnterpriseLen, cur, set_end)
        THEN [d |-> [d EXCEPT !.ret = "long_fieldspec"], cur |-> cur]
        ELSE
        LET enterprise_number ==
                IF enterprise THEN decode_uint32(msg, cur + 4) ELSE 0
            d1 == field_specifier(d, enterprise, ie_id, ie_length,
                                  enterprise_number)
            \* scope_field_specifier and options_field_specifier drop the
            \* error of field_specifier and return OK
            d2 == IF is_options_set /\ d1.fault = "none"
                  THEN [d1 EXCEPT !.ret = "ok"] ELSE d1
        IN  IF d2.fault = "none" /\ d2.ret # "ok"
            THEN [d |-> d2, cur |-> cur]
            ELSE field_specifiers(
                     d2, msg,
                     cur + kFieldSpecifierLen
                         + (IF enterprise THEN kEnterpriseLen ELSE 0),
                     set_end, field + 1, field_count,
                     is_options_set, scope_field_count)

RECURSIVE process_template_set(_, _, _, _, _, _)
process_template_set(d, msg, cur, set_end, is_options_set, reuse) ==
    LET header_length == IF is_options_set THEN kOptionsTemplateHeaderLen
                         ELSE kTemplateHeaderLen
    IN  IF d.fault # "none"
           \/ ~CHECK_POINTER_WITHIN_I(cur + header_length, cur, set_end)
        THEN [d EXCEPT !.ret = IF d.fault = "none" THEN "ok" ELSE @]
        ELSE
        LET set_id == decode_uint16(msg, cur)
            field_count == decode_uint16(msg, cur + 2)
            scope_field_count ==
                IF is_options_set THEN decode_uint16(msg, cur + 4) ELSE 0
            d1 == start_template_record(d, set_id, field_count, reuse)
            r == field_specifiers(d1, msg, cur + header_length, set_end, 0,
                                  field_count, is_options_set,
                                  scope_field_count)
        IN  IF r.d.fault # "none" \/ r.d.ret # "ok" THEN r.d
            ELSE LET d2 == end_template_record(r.d)
                 IN  IF d2.fault # "none" \/ d2.ret # "ok" THEN d2
                     ELSE process_template_set(d2, msg, r.cur, set_end,
                                               is_options_set, reuse)

\* start_template_set and start_options_template_set: the error of
\* process_template_set is dropped
start_template_set(d, msg, set_length, buf, is_options_set, reuse) ==
    IF d.current_wire_template # NULL THEN Abort(d)
    ELSE [process_template_set(d, msg, buf, buf + set_length,
                               is_options_set, reuse)
            EXCEPT !.ret = "ok"]

(***************************************************************************)
(* The caller's placement templates, by pointer: placement 1 asks for      *)
(* sourceIPv4Address (0/8), placement 2 for protocolIdentifier (0/4),      *)
(* placement 3 for interfaceName (0/82).                                   *)
(***************************************************************************)
PlacementObjects == << {<<0, 8>>}, {<<0, 4>>}, {<<0, 82>>} >>

\* the placement templates the collector of the parser runs registers
CollectorPlacements == { 1, 2 }

Placement(p) == PlacementObjects[p]

\* index of the last registered placement template that matches, or 0
RECURSIVE first_match_last(_, _, _)
first_match_last(d, ies, i) ==
    IF i > Len(d.placement_templates) THEN 0
    ELSE LET later == first_match_last(d, ies, i + 1)
         IN  IF later # 0 THEN later
             ELSE IF is_match(Placement(d.placement_templates[i]), ies) > 0
             THEN i
             ELSE 0

\* index of the first registered placement template that matches, or 0
RECURSIVE first_match(_, _, _)
first_match(d, ies, i) ==
    IF i > Len(d.placement_templates) THEN 0
    ELSE IF is_match(Placement(d.placement_templates[i]), ies) > 0 THEN i
    ELSE first_match(d, ies, i + 1)

match_placement_template(d, id, wire_template) ==
    IF d.use_matched_template_cache
       /\ wire_template \in DOMAIN d.matched_templates
    THEN [d |-> d, placement |-> d.matched_templates[wire_template],
          cached |-> TRUE]
    ELSE
    LET ies == d.heap[wire_template].ies
        i == first_match(d, ies, 1)
    IN  IF i = 0 THEN [d |-> d, placement |-> NULL, cached |-> FALSE]
        ELSE
        LET p == d.placement_templates[i]
            n_matches == is_match(Placement(p), ies)
            key == make_template_key(d, id)
            d1 == IF n_matches < Len(ies)
                     /\ key \notin d.incomplete_template_ids
                  THEN [d EXCEPT !.incomplete_template_ids = @ \cup {key},
                                 !.incomplete_warnings = Append(@, key)]
                  ELSE d
        IN  [d |-> [d1 EXCEPT !.matched_templates =
                                  MapPut(@, wire_template, p)],
             placement |-> p, cached |-> FALSE]

wire_template_min_length(ies) ==
    LET RECURSIVE sum(_)
        sum(i) == IF i > Len(ies) THEN 0
                  ELSE (IF ies[i].len # kIpfixVarlen THEN ies[i].len ELSE 0)
                       + sum(i + 1)
    IN  sum(1) % 65536

(***************************************************************************)
(* decode_varlen_length: the length, the cursor behind the length octets,  *)
(* and how it fails ("throw": report_error throws FormatError).            *)
(***************************************************************************)
\* decode_varlen_length with the two commented-out lines in force: the
\* three-octet form is refused for lengths below 255
decode_varlen_length_strict(msg, cur, buf_end) ==
    IF cur >= buf_end THEN [len |-> 0, cur |-> cur, fault |-> "throw"]
    ELSE
    LET b0 == Octet(msg, cur)
    IN  IF b0 < UCHAR_MAX
        THEN [len |-> b0, cur |-> cur + 1,
              fault |-> IF cur + 1 + b0 > buf_end THEN "throw" ELSE "none"]
        ELSE IF cur + 3 > buf_end
        THEN [len |-> 0, cur |-> cur, fault |-> "throw"]
        ELSE LET l == Octet(msg, cur + 1) * 256 + Octet(msg, cur + 2)
             IN  [len |-> l, cur |-> cur + 3,
                  fault |-> IF l < UCHAR_MAX \/ cur + 3 + l > buf_end
                            THEN "throw"
                            ELSE "none"]

decode_varlen_length(msg, cur, buf_end) ==
    IF cur >= buf_end THEN [len |-> 0, cur |-> cur, fault |-> "throw"]
    ELSE
    LET b0 == Octet(msg, cur)
    IN  IF b0 < UCHAR_MAX
        THEN [len |-> b0, cur |-> cur + 1,
              fault |-> IF cur + 1 + b0 > buf_end THEN "throw" ELSE "none"]
        ELSE IF cur + 3 > buf_end
        THEN [len |-> 0, cur |-> cur, fault |-> "throw"]
        ELSE LET l == Octet(msg, cur + 1) * 256 + Octet(msg, cur + 2)
             IN  [len |-> l, cur |-> cur + 3,
                  fault |-> IF cur + 3 + l > buf_end THEN "throw"
                            ELSE "none"]

(***************************************************************************)
(* DecodePlan.  An information element has the type the information model *)
(* gives its (pen, id); a destination is the memory of the host variable   *)
(* a placement names for an element: the octets of an integer, address or  *)
(* bool from the lowest address up, the content of a BasicOctetArray, or,  *)
(* for a double, the bits of the float that was converted into it; and     *)
(* whether execute has written to it.                                      *)
(***************************************************************************)
\* InfoModel: the type of an information element
IETypeOf(ie) ==
    CASE IEKey(ie) = <<0, 8>> -> "ipv4Address"
      [] IEKey(ie) = <<0, 4>> -> "unsigned8"
      [] IEKey(ie) = <<0, 10>> -> "unsigned32"
      [] IEKey(ie) = <<0, 434>> -> "signed32"
      [] IEKey(ie) = <<0, 276>> -> "boolean"
      [] IEKey(ie) = <<0, 320>> -> "float64"
      [] IEKey(ie) = <<0, 7>> -> "unsigned16"
      [] IEKey(ie) = <<0, 1>> -> "unsigned64"
      [] IEKey(ie) = <<29305, 11>> -> "signed8"
      [] IEKey(ie) = <<29305, 12>> -> "signed16"
      [] IEKey(ie) = <<29305, 13>> -> "signed64"
      [] IEKey(ie) = <<29305, 14>> -> "float32"
      [] IEKey(ie) = <<0, 56>> -> "macAddress"
      [] IEKey(ie) = <<0, 82>> -> "string"
      [] IEKey(ie) = <<0, 150>> -> "dateTimeSeconds"
      [] IEKey(ie) = <<0, 152>> -> "dateTimeMilliseconds"
      [] IEKey(ie) = <<0, 154>> -> "dateTimeMicroseconds"
      [] IEKey(ie) = <<0, 156>> -> "dateTimeNanoseconds"
      [] IEKey(ie) = <<0, 27>> -> "ipv6Address"
      [] OTHER -> "octetArray"

\* sizeof the native type
NativeSize(type) ==
    CASE type \in {"unsigned8", "signed8", "boolean"} -> 1
      [] type \in {"unsigned16", "signed16"} -> 2
      [] type \in {"unsigned32", "signed32", "float32", "ipv4Address",
                   "dateTimeSeconds"} -> 4
      [] type = "macAddress" -> 6
      [] type \in {"unsigned64", "signed64", "float64",
                   "dateTimeMilliseconds", "dateTimeMicroseconds",
                   "dateTimeNanoseconds"} -> 8
      [] type = "ipv6Address" -> 16
      [] OTHER -> 0

\* a host that never swaps octets
transfer_fixlen_never_endianness(big_endian) == "transfer_fixlen"

\* IPFIX_BIG_ENDIAN / IPFIX_LITTLE_ENDIAN: the fixed-length transfer of
\* the host
transfer_fixlen_maybe_endianness(big_endian) ==
    IF big_endian THEN "transfer_fixlen" ELSE "transfer_fixlen_endianness"

\* the decision of the constructor for one element of the wire template;
\* fault "throw" when report_error ends the construction, "assert" when
\* an assertion fails.  The assertion on a float64 reads d.length before
\* it is set: uninit says whether that value happens to be sizeof(double)
Decision(ie, placement, big_endian, uninit) ==
    LET type == IETypeOf(ie)
        size == NativeSize(type)
        maybe_endianness == transfer_fixlen_maybe_endianness(big_endian)
        float_maybe_endianness ==
            IF big_endian THEN "transfer_float_into_double"
            ELSE "transfer_float_into_double_endianness"
        dec(t, f) == [type |-> t, length |-> ie.len,
                      destination_size |-> size, p |-> IEKey(ie),
                      fault |-> f]
        too_long == IF ie.len > size THEN "throw" ELSE "none"
    IN  IF IEKey(ie) \in placement
        THEN CASE type \in {"octetArray", "string"} ->
                    IF ie.len = kIpfixVarlen THEN dec("transfer_varlen", "none")
                    ELSE dec("transfer_fixlen_octets", "none")
               [] type = "unsigned8" -> dec("transfer_fixlen", too_long)
               [] type \in {"unsigned16", "unsigned32", "unsigned64",
                            "signed8", "signed16", "signed32", "signed64",
                            "float32", "dateTimeSeconds",
                            "dateTimeMilliseconds"} ->
                    dec(maybe_endianness, too_long)
               [] type \in {"dateTimeMicroseconds",
                            "dateTimeNanoseconds"} ->
                    dec(maybe_endianness,
                        IF ie.len # 8 THEN "assert" ELSE "none")
               [] type = "macAddress" ->
                    dec("transfer_fixlen",
                        IF ie.len # 6 THEN "throw" ELSE "none")
               [] type = "ipv6Address" ->
                    dec("transfer_fixlen",
                        IF ie.len # 16 THEN "throw" ELSE "none")
               [] type = "float64" ->
                    IF ie.len = 4 THEN dec(float_maybe_endianness, "none")
                    ELSE IF ~uninit THEN dec(maybe_endianness, "assert")
                    ELSE dec(maybe_endianness, too_long)
               [] type = "boolean" -> dec("transfer_boolean", too_long)
               [] type = "ipv4Address" ->
                    dec(maybe_endianness,
                        IF ie.len # 4 THEN "throw" ELSE "none")
               [] OTHER -> dec("none", "throw")
        ELSE IF ie.len = kIpfixVarlen
        THEN [type |-> "skip_varlen", length |-> 0, destination_size |-> 0,
              p |-> <<>>, fault |-> "none"]
        ELSE [type |-> "skip_fixlen", length |-> ie.len,
              destination_size |-> 0, p |-> <<>>, fault |-> "none"]

\* coalescing that keeps the length of the first skip only
RECURSIVE Coalesce_first_length(_)
Coalesce_first_length(plan) ==
    IF Len(plan) < 2 THEN plan
    ELSE IF plan[1].type = "skip_fixlen" /\ plan[2].type = "skip_fixlen"
    THEN Coalesce_first_length(<< plan[1] >> \o SubSeq(plan, 3, Len(plan)))
    ELSE << plan[1] >> \o Coalesce_first_length(Tail(plan))

\* coalescing that joins a skip with the one behind it, once
RECURSIVE Coalesce_pairwise(_)
Coalesce_pairwise(plan) ==
    IF Len(plan) < 2 THEN plan
    ELSE IF plan[1].type = "skip_fixlen" /\ plan[2].type = "skip_fixlen"
    THEN << [plan[1] EXCEPT !.length = (@ + plan[2].length) % 65536] >>
         \o Coalesce_pairwise(SubSeq(plan, 3, Len(plan)))
    ELSE << plan[1] >> \o Coalesce_pairwise(Tail(plan))

\* adjacent skip_fixlen decisions become one (the length is a uint16_t)
RECURSIVE Coalesce(_)
Coalesce(plan) ==
    IF Len(plan) < 2 THEN plan
    ELSE IF plan[1].type = "skip_fixlen" /\ plan[2].type = "skip_fixlen"
    THEN Coalesce(<< [plan[1] EXCEPT
                        !.length = (@ + plan[2].length) % 65536] >>
                  \o SubSeq(plan, 3, Len(plan)))
    ELSE << plan[1] >> \o Coalesce(Tail(plan))

\* decisions for the elements that have a placement only
RECURSIVE Decisions_placed_only(_, _, _, _)
Decisions_placed_only(placement, wire_template, big_endian, uninit) ==
    IF wire_template = <<>> THEN <<>>
    ELSE (IF IEKey(Head(wire_template)) \in placement
          THEN << Decision(Head(wire_template), placement, big_endian,
                           uninit) >>
          ELSE <<>>)
         \o Decisions_placed_only(placement, Tail(wire_template),
                                  big_endian, uninit)

\* the first loop of the constructor: one decision for each element of
\* the wire template, in its order
Decisions(placement, wire_template, big_endian, uninit) ==
    [i \in 1..Len(wire_template) |->
       Decision(wire_template[i], placement, big_endian, uninit)]

\* DecodePlan::DecodePlan: the plan, or the fault of the first decision
\* that has one; decisions is the plan as it was before the coalescing
DecodePlan(placement, wire_template, big_endian, uninit) ==
    LET first(bad) == CHOOSE i \in bad : \A j \in bad : i <= j
        built(ds, bad) ==
            IF bad # {}
            THEN [plan |-> <<>>, fault |-> ds[first(bad)].fault,
                  decisions |-> <<>>]
            ELSE [plan |-> Coalesce(ds), fault |-> "none", decisions |-> ds]
        checked(ds) ==
            built(ds, { i \in 1..Len(ds) : ds[i].fault # "none" })
    IN  checked(Decisions(placement, wire_template, big_endian, uninit))

\* length octets of the buffer from cur on
Wire(msg, cur, length) == [k \in 1..length |-> Octet(msg, cur + k - 1)]

Zeros(n) == [k \in 1..n |-> 0]

Reverse(s) == [k \in 1..Len(s) |-> s[Len(s) + 1 - k]]

\* the unsigned value of octets, most significant first
RECURSIVE BigEndianValue(_)
BigEndianValue(s) ==
    IF s = <<>> THEN 0
    ELSE BigEndianValue(SubSeq(s, 1, Len(s) - 1)) * 256 + s[Len(s)]

\* transfer_fixlen with the value at the wrong end of the destination
TransferEndianness_right_justified(wire, destination_size) ==
    Zeros(destination_size - Len(wire)) \o Reverse(wire)

\* transfer_fixlen_endianness: memset, then q[k] = cur[length - (k + 1)]
TransferEndianness(wire, destination_size) ==
    Reverse(wire) \o Zeros(destination_size - Len(wire))

\* transfer_fixlen: memset, then memcpy to q + destination_size - length
TransferFixlen(wire, destination_size) ==
    Zeros(destination_size - Len(wire)) \o wire

\* transfer_boolean taking every octet but 1 for false
DecodeBoolean_lenient(octet) ==
    IF octet = 1 THEN << 1 >> ELSE << 0 >>

\* transfer_boolean: the bool for the octet on the wire (RFC 2579
\* TruthValue), or no value when report_error is called
DecodeBoolean(octet) ==
    IF octet = 1 THEN << 1 >>
    ELSE IF octet = 2 THEN << 0 >>
    ELSE <<>>

\* one decision of execute: the cursor, the destinations and the count of
\* transfers behind it, or the fault that ends execute ("throw":
\* report_error throws FormatError, "assert": an assertion fails)
Step(msg, cur, buf_end, i, dst, written) ==
    LET stop(f) == [cur |-> cur, dst |-> dst, written |-> written,
                    fault |-> f]
        go(c, v) == [cur |-> c,
                     dst |-> [dst EXCEPT ![i.p] = [written |-> TRUE,
                                                   value |-> v]],
                     written |-> written + 1, fault |-> "none"]
        skip(c) == [cur |-> c, dst |-> dst, written |-> written,
                    fault |-> "none"]
        skip_varlen(v) ==
            IF v.fault # "none" THEN [stop(v.fault) EXCEPT !.cur = v.cur]
            ELSE skip(v.cur + v.len)
        transfer_varlen(v) ==
            IF v.fault # "none" THEN [stop(v.fault) EXCEPT !.cur = v.cur]
            ELSE go(v.cur + v.len, Wire(msg, v.cur, v.len))
        transfer_boolean(b) ==
            IF b = <<>> THEN stop("throw") ELSE go(cur + 1, b)
    IN  IF ~(cur < buf_end) THEN stop("assert")
        ELSE CASE i.type = "skip_fixlen" ->
                    IF ~(cur + i.length <= buf_end) THEN stop("assert")
                    ELSE skip(cur + i.length)
               [] i.type = "skip_varlen" ->
                    skip_varlen(decode_varlen_length(msg, cur, buf_end))
               [] i.type = "transfer_boolean" ->
                    IF ~(cur + 1 <= buf_end) THEN stop("assert")
                    ELSE transfer_boolean(DecodeBoolean(Octet(msg, cur)))
               [] i.type = "transfer_fixlen" ->
                    IF cur + i.length > buf_end THEN stop("throw")
                    ELSE IF ~(i.length <= i.destination_size)
                    THEN stop("assert")
                    ELSE go(cur + i.length,
                            TransferFixlen(Wire(msg, cur, i.length),
                                           i.destination_size))
               [] i.type = "transfer_fixlen_endianness" ->
                    IF cur + i.length > buf_end THEN stop("throw")
                    ELSE IF ~(i.length <= i.destination_size)
                    THEN stop("assert")
                    ELSE go(cur + i.length,
                            TransferEndianness(Wire(msg, cur, i.length),
                                               i.destination_size))
               [] i.type = "transfer_fixlen_octets" ->
                    IF ~(cur + i.length <= buf_end) THEN stop("assert")
                    ELSE go(cur + i.length, Wire(msg, cur, i.length))
               [] i.type \in {"transfer_float_into_double",
                              "transfer_float_into_double_endianness"} ->
                    IF ~(cur + 4 <= buf_end) THEN stop("assert")
                    ELSE go(cur + 4,
                            << BigEndianValue(Wire(msg, cur, 4)) >>)
               [] i.type = "transfer_varlen" ->
                    transfer_varlen(decode_varlen_length(msg, cur, buf_end))

RECURSIVE execute_from(_, _, _, _, _, _, _)
execute_from(msg, cur, buf_end, plan, i, dst, written) ==
    IF i > Len(plan)
    THEN [cur |-> cur, dst |-> dst, written |-> written, fault |-> "none"]
    ELSE LET next(r) ==
                 IF r.fault # "none" THEN r
                 ELSE execute_from(msg, r.cur, buf_end, plan, i + 1, r.dst,
                                   r.written)
         IN  next(Step(msg, cur, buf_end, plan[i], dst, written))

\* DecodePlan::execute on the record at buf: the octets consumed, the
\* destinations, the number of transfers done, and the fault if any
execute(msg, buf, length, plan, dst) ==
    LET result(r) == [consumed |-> (r.cur - buf) % 65536,
                      written |-> r.written, dst |-> r.dst,
                      fault |-> r.fault]
    IN  result(execute_from(msg, buf, buf + length, plan, 1, dst, 0))

\* the destinations of a placement before anything is written to them
Untouched(placement) ==
    [k \in placement |-> [written |-> FALSE, value |-> <<>>]]

\* the record loop of start_data_set; a record that consumes nothing
\* leaves cur and length as they were, so the loop never ends ("hang"); an
\* error context returned by start_placement or end_placement is returned
\* at once (CH_REPORT_CALLBACK_ERROR)
RECURSIVE records_unbracketed(_, _, _, _, _, _, _, _)
records_unbracketed(d, msg, cur, buf_end, length, min_length, plan, p) ==
    IF ~(cur < buf_end /\ length >= min_length) THEN d
    ELSE
    LET turn == Len(d.loop) + 1
        called ==
            [d EXCEPT !.pcalls = Append(@, <<"start_placement", p>>),
                      !.loop = Append(@, [cur |-> cur, length |-> length,
                                          buf_end |-> buf_end]),
                      !.events = Append(@, <<"start_placement", p>>)]
        started(x) ==
            [called EXCEPT
               !.events = d.events
                            \o [k \in 1..x.written |-> <<"write", p>>]
                            \o << <<"start_placement", p>> >>,
               !.writes = @ + x.written]
        ended(d1) ==
            [d1 EXCEPT !.pcalls = Append(@, <<"end_placement", p>>),
                       !.events = Append(@, <<"end_placement", p>>)]
        after(x) ==
            IF x.fault # "none" THEN [started(x) EXCEPT !.fault = x.fault]
            ELSE IF d.collector.end_error = turn
            THEN [ended(started(x)) EXCEPT !.ret = "callback_error"]
            ELSE IF x.consumed = 0
            THEN [ended(started(x)) EXCEPT !.fault = "hang"]
            ELSE records_unbracketed(ended(started(x)), msg, cur + x.consumed, buf_end,
                                    (length - x.consumed) % 65536, min_length, plan, p)
    IN  IF d.collector.start_error = turn
        THEN [called EXCEPT !.ret = "callback_error"]
        ELSE after(execute(msg, cur, length, plan, Untouched(Placement(p))))

\* the record loop with the results of start_placement and end_placement
\* thrown away
RECURSIVE records_deaf(_, _, _, _, _, _, _, _)
records_deaf(d, msg, cur, buf_end, length, min_length, plan, p) ==
    IF ~(cur < buf_end /\ length >= min_length) THEN d
    ELSE
    LET started(x) ==
            [d EXCEPT !.pcalls = Append(@, <<"start_placement", p>>),
                      !.loop = Append(@, [cur |-> cur, length |-> length,
                                          buf_end |-> buf_end]),
                      !.events = Append(@, <<"start_placement", p>>)
                                   \o [k \in 1..x.written |-> <<"write", p>>],
                      !.writes = @ + x.written]
        ended(d1) ==
            [d1 EXCEPT !.pcalls = Append(@, <<"end_placement", p>>),
                       !.events = Append(@, <<"end_placement", p>>)]
        after(x) ==
            IF x.fault # "none" THEN [started(x) EXCEPT !.fault = x.fault]
            ELSE IF x.consumed = 0
            THEN [ended(started(x)) EXCEPT !.fault = "hang"]
            ELSE records_deaf(ended(started(x)), msg, cur + x.consumed,
                              buf_end, (length - x.consumed) % 65536,
                              min_length, plan, p)
    IN  after(execute(msg, cur, length, plan, Untouched(Placement(p))))

RECURSIVE records(_, _, _, _, _, _, _, _)
records(d, msg, cur, buf_end, length, min_length, plan, p) ==
    IF ~(cur < buf_end /\ length >= min_length) THEN d
    ELSE
    LET turn == Len(d.loop) + 1
        called ==
            [d EXCEPT !.pcalls = Append(@, <<"start_placement", p>>),
                      !.loop = Append(@, [cur |-> cur, length |-> length,
                                          buf_end |-> buf_end]),
                      !.events = Append(@, <<"start_placement", p>>)]
        started(x) ==
            [called EXCEPT
               !.events = @ \o [k \in 1..x.written |-> <<"write", p>>],
               !.writes = @ + x.written]
        ended(d1) ==
            [d1 EXCEPT !.pcalls = Append(@, <<"end_placement", p>>),
                       !.events = Append(@, <<"end_placement", p>>)]
        after(x) ==
            IF x.fault # "none" THEN [started(x) EXCEPT !.fault = x.fault]
            ELSE IF d.collector.end_error = turn
            THEN [ended(started(x)) EXCEPT !.ret = "callback_error"]
            ELSE IF x.consumed = 0
            THEN [ended(started(x)) EXCEPT !.fault = "hang"]
            ELSE records(ended(started(x)), msg, cur + x.consumed, buf_end,
                        (length - x.consumed) % 65536, min_length, plan, p)
    IN  IF d.collector.start_error = turn
        THEN [called EXCEPT !.ret = "callback_error"]
        ELSE after(execute(msg, cur, length, plan, Untouched(Placement(p))))

\* start_data_set from the point where a wire template is known
decode_data_set(d, msg, id, length, buf, wire_template) ==
    LET planned(md, placement, cached, ies, c) ==
            IF c.fault # "none" THEN [md EXCEPT !.fault = c.fault]
            ELSE IF placement \notin md.callbacks THEN Abort(md)
            ELSE records([md EXCEPT !.plan = [wire |-> wire_template,
                                              ies |-> ies,
                                              placement |-> placement,
                                              cached |-> cached]],
                         msg, buf, buf + length, length,
                         wire_template_min_length(ies), c.plan, placement)
        matched(m, ies) ==
            IF m.placement = NULL THEN [m.d EXCEPT !.wire_used = wire_template]
            ELSE planned([m.d EXCEPT !.wire_used = wire_template],
                         m.placement, m.cached, ies,
                         DecodePlan(Placement(m.placement), ies, FALSE,
                                    FALSE))
    IN  matched(match_placement_template(d, id, wire_template),
                d.heap[wire_template].ies)

\* one template record handed to the content handler by the collector's
\* unhandled_data_set override
RECURSIVE add_fields(_, _, _)
add_fields(d, ies, i) ==
    IF i > Len(ies) \/ d.fault # "none" THEN d
    ELSE add_fields(field_specifier(d, ies[i].pen # 0, ies[i].id,
                                    ies[i].len, ies[i].pen), ies, i + 1)

unhandled_data_set(d, id, hb, reuse) ==
    LET d0 == [d EXCEPT !.handler_calls = @ + 1,
                        !.handler_ret = hb.ret,
                        !.handler_install = hb.install]
    IN  IF hb.install = <<>> THEN d0
        ELSE LET d1 == add_fields(
                           start_template_record(d0, id, Len(hb.install),
                                                 reuse),
                           hb.install, 1)
             IN  IF d1.fault # "none" THEN d1 ELSE end_template_record(d1)

\* a data set without wire template: the key is remembered, the warning
\* is issued the first time
NoteUnmatched_always(d, id) ==
    LET key == make_template_key(d, id)
    IN  [d EXCEPT !.unmatched_template_ids = @ \cup {key},
                  !.warnings = Append(@, key),
                  !.ret = "ok"]

NoteUnmatched(d, id) ==
    LET key == make_template_key(d, id)
    IN  IF key \notin d.unmatched_template_ids
        THEN [d EXCEPT !.unmatched_template_ids = @ \cup {key},
                       !.warnings = Append(@, key),
                       !.ret = "ok"]
        ELSE [d EXCEPT !.ret = "ok"]

ResetSetLog(d) ==
    [d EXCEPT !.pcalls = <<>>, !.loop = <<>>, !.events = <<>>, !.writes = 0,
              !.handler_calls = 0,
              !.lookups = 0, !.plan = NoPlan, !.ret = "ok",
              !.data_id = 0, !.wire_used = NULL,
              !.handler_ret = "none", !.handler_install = <<>>]

\* hb: what the registered handler does (hb.ret: "null" for a null error
\* context, "again", or "error" for any other error; hb.install: the
\* template it installs for the set's id, <<>> for none).  ub: what reading
\* the error through a null pointer yields ("crash", or a value that
\* compares equal to Error::again, "again", or does not, "other").
start_data_set_no_retry(d, msg, id, length, buf, hb, ub, reuse) ==
    LET d0 == [ResetSetLog(d) EXCEPT !.lookups = 1, !.data_id = id]
        wire_template == find_wire_template(d0, id)
    IN  IF wire_template = NULL
        THEN IF ~d0.unhandled_data_set_handler
             THEN NoteUnmatched(d0, id)
             ELSE
             LET d1 == unhandled_data_set(d0, id, hb, reuse)
                 e == IF hb.ret = "null" THEN ub ELSE hb.ret
             IN  IF d1.fault # "none" THEN d1
                 ELSE IF e = "crash" THEN [d1 EXCEPT !.fault = "crash"]
                 ELSE IF e = "again"
                 THEN NoteUnmatched([d1 EXCEPT !.ret = "ok"], id)
                 ELSE Abort(d1)
        ELSE decode_data_set(d0, msg, id, length, buf, wire_template)

start_data_set(d, msg, id, length, buf, hb, ub, reuse) ==
    LET d0 == [ResetSetLog(d) EXCEPT !.lookups = 1, !.data_id = id]
        wire_template == find_wire_template(d0, id)
    IN  IF wire_template = NULL
        THEN IF ~d0.unhandled_data_set_handler
             THEN NoteUnmatched(d0, id)
             ELSE
             LET d1 == unhandled_data_set(d0, id, hb, reuse)
                 e == IF hb.ret = "null" THEN ub ELSE hb.ret
             IN  IF d1.fault # "none" THEN d1
                 ELSE IF e = "crash" THEN [d1 EXCEPT !.fault = "crash"]
                 ELSE IF e = "again"
                 THEN LET d2 == [d1 EXCEPT !.lookups = @ + 1, !.ret = "ok"]
                          second == find_wire_template(d2, id)
                      IN  IF second = NULL THEN NoteUnmatched(d2, id)
                          ELSE decode_data_set(d2, msg, id, length, buf,
                                               second)
                 ELSE \* assert(wire_template != 0)
                      Abort(d1)
        ELSE decode_data_set(d0, msg, id, length, buf, wire_template)

start_message(d, version, length, export_time, sequence_number, observation_domain, base_time) ==
    IF d.current_wire_template # NULL THEN Abort(d)
    ELSE IF version = kIpfixVersion /\ base_time # 0
    THEN [d EXCEPT !.parse_is_good = FALSE, !.ret = "ipfix_basetime"]
    ELSE IF version = kIpfixVersion /\ length < kIpfixMinMessageLen
    THEN [d EXCEPT !.parse_is_good = FALSE, !.ret = "short_message"]
    ELSE [d EXCEPT !.observation_domain = observation_domain, !.ret = "ok"]

end_message(d) ==
    IF d.current_wire_template # NULL THEN Abort(d)
    ELSE [d EXCEPT !.ret = "ok"]

(***************************************************************************)
(* IPFIXMessageStreamParser::parse: the checks that end the stream.        *)
(***************************************************************************)
\* the checks on the header read (nbytes > 0 octets, in message)
header_error_any_version(nbytes, message) ==
    IF nbytes < kIpfixMessageHeaderLen THEN "short_header" ELSE "none"

header_error(nbytes, message) ==
    IF nbytes < kIpfixMessageHeaderLen THEN "short_header"
    ELSE IF decode_uint16(message, 0) # kIpfixVersion
    THEN "message_version_number"
    ELSE "none"

\* the checks on the body read
body_error(nbytes, message_size) ==
    IF nbytes < 0 THEN "read_error"
    ELSE IF nbytes # message_size - kIpfixMessageHeaderLen THEN "short_body"
    ELSE "none"

\* the check on a set header at cur
set_error_unchecked(cur, set_length, message_size) == "none"

set_error(cur, set_length, message_size) ==
    IF cur + set_length > message_size THEN "long_set" ELSE "none"

\* what happens after the zero-octet read that ends the message loop
end_of_stream_silent(nbytes) ==
    IF nbytes < 0 THEN [err |-> "read_error", end_session |-> FALSE]
    ELSE [err |-> "none", end_session |-> FALSE]

end_of_stream(nbytes) ==
    IF nbytes < 0 THEN [err |-> "read_error", end_session |-> FALSE]
    ELSE [err |-> "none", end_session |-> TRUE]

\* the dispatch on the set id
SetKind_no_options(set_id) ==
    IF set_id = kIpfixTemplateSetID THEN "template" ELSE "data"

SetKind(set_id) ==
    IF set_id = kIpfixTemplateSetID THEN "template"
    ELSE IF set_id = kIpfixOptionTemplateSetID THEN "options_template"
    ELSE "data"

\* how the process ends when the handler dies
FaultPc(fault) ==
    CASE fault = "assert" -> "aborted"
      [] fault = "crash" -> "crashed"
      [] fault = "throw" -> "thrown"
      [] fault = "hang" -> "hung"

(***************************************************************************)
(* The inputs: octet streams built from a small menu of messages.          *)
(***************************************************************************)
U16(x) == << x \div 256, x % 256 >>
U32(x) == U16(x \div 65536) \o U16(x % 65536)

RECURSIVE Flatten(_)
Flatten(ss) == IF ss = <<>> THEN <<>> ELSE Head(ss) \o Flatten(Tail(ss))

\* sourceIPv4Address, protocolIdentifier, an enterprise-specific element
IE_A == InfoElementPtr(0, 8, 4)
IE_B == InfoElementPtr(0, 4, 1)
IE_E == InfoElementPtr(29305, 1, 2)

Domains == {0, 1}

FieldSpec(ie) ==
    IF ie.pen # 0 THEN U16(32768 + ie.id) \o U16(ie.len) \o U32(ie.pen)
    ELSE U16(ie.id) \o U16(ie.len)

FieldSpecs(ies) == Flatten([i \in 1..Len(ies) |-> FieldSpec(ies[i])])

TemplateSet(tid, ies) ==
    [kind |-> "template", tid |-> tid, ok |-> TRUE, ies |-> ies, octets |-> 0,
     bytes |-> U16(kIpfixTemplateSetID)
               \o U16(kIpfixSetHeaderLen + kTemplateHeaderLen
                      + Len(FieldSpecs(ies)))
               \o U16(tid) \o U16(Len(ies)) \o FieldSpecs(ies)]

OptionsSet(tid, ies, scope) ==
    [kind |-> "options_template", tid |-> tid, ok |-> TRUE, ies |-> ies, octets |-> 0,
     bytes |-> U16(kIpfixOptionTemplateSetID)
               \o U16(kIpfixSetHeaderLen + kOptionsTemplateHeaderLen
                      + Len(FieldSpecs(ies)))
               \o U16(tid) \o U16(Len(ies)) \o U16(scope)
               \o FieldSpecs(ies)]

DataSet(tid, payload) ==
    [kind |-> "data", tid |-> tid, ok |-> TRUE, ies |-> <<>>, octets |-> Len(payload),
     bytes |-> U16(tid) \o U16(kIpfixSetHeaderLen + Len(payload))
               \o payload]

\* a template set whose record announces two fields and carries one
BrokenTemplateSet(tid) ==
    [kind |-> "template", tid |-> tid, ok |-> FALSE, ies |-> <<>>, octets |-> 0,
     bytes |-> U16(kIpfixTemplateSetID) \o U16(12) \o U16(tid) \o U16(2)
               \o FieldSpec(IE_A)]

\* a set header whose length runs past the end of the message
LongSet(tid) ==
    [kind |-> "data", tid |-> tid, ok |-> FALSE, ies |-> <<>>, octets |-> 0,
     bytes |-> U16(tid) \o U16(100) \o <<1, 2, 3, 4, 5, 6, 7, 8, 9, 10>>]

Payload8 == <<192, 0, 2, 1, 10, 0, 0, 1>>
Payload5 == <<192, 0, 2, 1, 6>>

Header(version, length, domain) ==
    U16(version) \o U16(length) \o U32(1) \o U32(1) \o U32(domain)

SetBytes(sets) == Flatten([i \in 1..Len(sets) |-> sets[i].bytes])

\* a message as the exporter sends it, and what it is: breaks tells what is
\* wrong with it ("none" for a well-formed IPFIX message), sets are its
\* sets in wire order (kind, template id, whether the set is well-formed,
\* the fields of the template it announces, the octets of its records),
\* then is the state of the source behind its last octet
WholeMessage(domain, sets, padding) ==
    [bytes |-> Header(kIpfixVersion,
                      kIpfixMessageHeaderLen + Len(SetBytes(sets))
                          + Len(padding), domain)
               \o SetBytes(sets) \o padding,
     breaks |-> "none",
     sets |-> [i \in 1..Len(sets) |->
                 [kind |-> sets[i].kind, tid |-> sets[i].tid,
                  ok |-> sets[i].ok, ies |-> sets[i].ies,
                  octets |-> sets[i].octets]],
     domain |-> domain,
     then |-> "open"]

Bodies ==
    { <<>>,
      << TemplateSet(256, <<IE_A>>) >>,
      << TemplateSet(256, <<IE_A, IE_B>>) >>,
      << OptionsSet(257, <<IE_E, IE_A>>, 1) >>,
      << DataSet(256, Payload8) >>,
      << DataSet(257, Payload5) >>,
      << TemplateSet(256, <<IE_A>>), DataSet(256, Payload8) >>,
      << TemplateSet(256, <<IE_A>>), TemplateSet(256, <<IE_A, IE_B>>),
         DataSet(256, Payload8) >>,
      << DataSet(256, Payload5), DataSet(256, Payload8) >> }

\* what the exporter of the second observation domain sends
OtherBodies ==
    { << TemplateSet(256, <<IE_A>>) >>,
      << TemplateSet(256, <<IE_A, IE_B>>), DataSet(256, Payload5) >>,
      << DataSet(256, Payload8) >>,
      << DataSet(257, Payload5) >> }

ValidMessages ==
    { WholeMessage(0, body, <<>>) : body \in Bodies }
    \cup { WholeMessage(1, body, <<>>) : body \in OtherBodies }
    \cup { WholeMessage(0, << DataSet(256, Payload8) >>, <<0, 0>>) }

Broken(m, breaks, bytes, then) ==
    [m EXCEPT !.bytes = bytes, !.breaks = breaks, !.then = then]

BrokenMessages ==
    LET one == WholeMessage(0, << DataSet(256, Payload8) >>, <<>>)
        long == WholeMessage(0, << LongSet(256) >>, <<>>)
        long2 == WholeMessage(0, << TemplateSet(256, <<IE_A>>),
                                    LongSet(256) >>, <<>>)
        trunc == WholeMessage(0, << BrokenTemplateSet(258) >>, <<>>)
    IN  { \* bad version
          Broken(one, "version",
                 Header(9, Len(one.bytes), 0) \o Drop(one.bytes, 16),
                 "open"),
          \* length field below the header length
          Broken(one, "length", Header(kIpfixVersion, 8, 0), "eof"),
          \* the stream ends inside the header
          Broken(one, "short_header", Take(one.bytes, 7), "eof"),
          \* the stream ends inside the body
          Broken(one, "short_body", Take(one.bytes, 22), "eof"),
          \* the source fails behind the header
          Broken(one, "read_error", Take(one.bytes, 16), "error"),
          \* set_length = 100 in a short message
          Broken(long, "long_set", long.bytes, "open"),
          Broken(long2, "long_set", long2.bytes, "open"),
          \* framing intact, template record cut short
          Broken(trunc, "template", trunc.bytes, "open") }

Messages == ValidMessages \cup BrokenMessages

NoMessage == [bytes |-> <<>>, breaks |-> "nothing", sets |-> <<>>,
              domain |-> 0, then |-> "eof"]

\* what a registered unhandled_data_set override may do
HandlerMenu ==
    { [ret |-> r, install |-> t] :
        r \in {"null", "again", "error"}, t \in {<<>>, <<IE_A>>} }

NoHandler == [ret |-> "null", install |-> <<>>]

(***************************************************************************)
(* State.                                                                  *)
(*   pc            where parse is: "idle" (not called yet), "read" (about  *)
(*                 to read a header), "sets" (in the set loop), "done"     *)
(*                 (returned after end_session), "fatal" (returned after   *)
(*                 error_handler->fatal), or how the process died:         *)
(*                 "aborted", "crashed", "thrown", "hung"                  *)
(*   message, message_size, cur, offset, nbytes   the parser's members and *)
(*                 locals                                                  *)
(*   d             the PlacementContentHandler                             *)
(*   stream, source, fed   the input source: octets not read yet, whether  *)
(*                 more can follow ("open") or a read behind them returns  *)
(*                 0 ("eof") or -1 ("error"), messages delivered so far    *)
(* and what an observer sees:                                              *)
(*   fedmsg, curmsg  the message waiting in the stream, the message being  *)
(*                 parsed                                                  *)
(*   calls         content-handler callbacks since the last start_message  *)
(*   session       start_session/end_session callbacks                     *)
(*   errs          errors handed to error_handler->fatal                   *)
(*   nreads        reads issued in the current turn of the message loop    *)
(*   announced     (observation domain, template id) of the well-formed    *)
(*                 template records handed to the handler so far           *)
(***************************************************************************)
VARIABLES pc, message, message_size, cur, offset, nbytes, d,
          stream, source, fed, fedmsg, curmsg, calls, session, errs, nreads,
          announced, dp

vars == << pc, message, message_size, cur, offset, nbytes, d,
           stream, source, fed, fedmsg, curmsg, calls, session, errs,
           nreads, announced, dp >>

parser_vars == << message, message_size, cur, offset, nbytes >>
source_vars == << stream, source, fed, fedmsg >>
seen_vars == << curmsg, calls, session, errs, nreads, announced >>

\* PlacementContentHandler::PlacementContentHandler.  The constructor
\* leaves observation_domain and the current_* counters unset; they are
\* written before they are read.
\* a collector whose start_placement and end_placement return no error
NoCallbackError == [start_error |-> 0, end_error |-> 0]

\* the collectors under test: start_placement, or end_placement, returns
\* an error context for the first or for the second record of a set
CollectorChoices ==
    { NoCallbackError }
      \cup { [start_error |-> k, end_error |-> 0] : k \in 1..2 }
      \cup { [start_error |-> 0, end_error |-> k] : k \in 1..2 }

NewHandler ==
    [observation_domain |-> 0,
     current_template_id |-> 0,
     current_field_count |-> 0,
     current_field_no |-> 0,
     current_wire_template |-> NULL,
     wire_templates |-> <<>>,
     matched_templates |-> <<>>,
     incomplete_template_ids |-> {},
     unmatched_template_ids |-> {},
     placement_templates |-> <<>>,
     callbacks |-> {},
     unhandled_data_set_handler |-> FALSE,
     use_matched_template_cache |-> FALSE,
     parse_is_good |-> TRUE,
     heap |-> <<>>,
     fault |-> "none",
     ret |-> "ok",
     warnings |-> <<>>,
     incomplete_warnings |-> <<>>,
     pcalls |-> <<>>,
     loop |-> <<>>,
     collector |-> NoCallbackError,
     writes |-> 0,
     handler_calls |-> 0,
     lookups |-> 0,
     events |-> <<>>,
     data_id |-> 0,
     wire_used |-> NULL,
     handler_ret |-> "none",
     handler_install |-> <<>>,
     plan |-> NoPlan]

\* no DecodePlan under test
NoDecode == [stage |-> "none"]

Init ==
    /\ pc = "idle"
    /\ message = <<>>
    /\ message_size = 0
    /\ cur = 0
    /\ offset = 0
    /\ nbytes = 0
    /\ d = NewHandler
    /\ stream = <<>>
    /\ source = "open"
    /\ fed = 0
    /\ fedmsg = NoMessage
    /\ curmsg = NoMessage
    /\ calls = <<>>
    /\ session = <<>>
    /\ errs = <<>>
    /\ nreads = 0
    /\ announced = {}
    /\ dp = NoDecode

(***************************************************************************)
(* Set-up by the collector, before collect; a placement template may also  *)
(* be registered between the messages of two collects.                     *)
(***************************************************************************)
\* registration that puts the new placement template before the others
register_placement_template_front(p) ==
    /\ pc \in { "idle", "handler" }
    /\ UNCHANGED dp
    /\ \A i \in 1..Len(d.placement_templates) : d.placement_templates[i] # p
    /\ d' = [d EXCEPT !.placement_templates = << p >> \o @,
                      !.callbacks = @ \cup {p}]
    /\ UNCHANGED << pc, parser_vars, source_vars, seen_vars >>

register_placement_template(p) ==
    /\ pc \in { "idle", "handler" }
    /\ UNCHANGED dp
    /\ \A i \in 1..Len(d.placement_templates) : d.placement_templates[i] # p
    /\ d' = [d EXCEPT !.placement_templates = Append(@, p),
                      !.callbacks = @ \cup {p}]
    /\ UNCHANGED << pc, parser_vars, source_vars, seen_vars >>

register_unhandled_data_set_handler ==
    /\ pc = "idle"
    /\ UNCHANGED dp
    /\ ~d.unhandled_data_set_handler
    /\ d' = [d EXCEPT !.unhandled_data_set_handler = TRUE]
    /\ UNCHANGED << pc, parser_vars, source_vars, seen_vars >>

use_matched_template_cache_on ==
    /\ pc = "idle"
    /\ UNCHANGED dp
    /\ ~d.use_matched_template_cache
    /\ d' = [d EXCEPT !.use_matched_template_cache = TRUE]
    /\ UNCHANGED << pc, parser_vars, source_vars, seen_vars >>

(***************************************************************************)
(* The input source.                                                       *)
(***************************************************************************)
\* the exporter sends one more message
Source_Feed(m) ==
    /\ pc = "read"
    /\ UNCHANGED dp
    /\ source = "open"
    /\ fed < MaxMsgs
    /\ Len(stream) < kIpfixMessageHeaderLen
    /\ stream' = stream \o m.bytes
    /\ source' = m.then
    /\ fed' = fed + 1
    /\ fedmsg' = m
    /\ UNCHANGED << pc, parser_vars, d, seen_vars >>

\* the stream ends, or the source fails
Source_End(how) ==
    /\ pc = "read"
    /\ UNCHANGED dp
    /\ source = "open"
    /\ stream = <<>>
    /\ source' = how
    /\ fedmsg' = NoMessage
    /\ UNCHANGED << pc, parser_vars, d, stream, fed, seen_vars >>

\* InputSource::read: the result of reading len octets
read(len) ==
    LET got == Take(stream, len)
    IN  [nbytes |-> IF got = <<>> /\ len > 0 /\ source = "error" THEN -1
                    ELSE Len(got),
         octets |-> got,
         rest |-> Drop(stream, len)]

(***************************************************************************)
(* IPFIXMessageStreamParser::parse.                                        *)
(***************************************************************************)
Parse_Start ==
    /\ pc = "idle"
    /\ UNCHANGED dp
    /\ pc' = "read"
    /\ session' = Append(session, "start_session")
    /\ message' = <<>>
    /\ offset' = 0
    /\ UNCHANGED << message_size, cur, nbytes, d, source_vars, curmsg,
                    calls, errs, nreads, announced >>

Fatal(error) ==
    /\ pc' = "fatal"
    /\ errs' = Append(errs, error)

\* the header read at the top of the message loop, start_message and the
\* body read
Parse_Message ==
    /\ pc = "read"
    /\ UNCHANGED dp
    /\ source # "open" \/ Len(stream) >= kIpfixMessageHeaderLen
    /\ LET h == read(kIpfixMessageHeaderLen)
           size == decode_uint16(h.octets, 2)
           d1 == start_message(ResetSetLog(d),
                               decode_uint16(h.octets, 0), size,
                               decode_uint32(h.octets, 4),
                               decode_uint32(h.octets, 8),
                               decode_uint32(h.octets, 12), 0)
           b == [nbytes |-> IF Len(h.rest) = 0
                               /\ size - kIpfixMessageHeaderLen > 0
                               /\ source = "error"
                            THEN -1
                            ELSE Len(Take(h.rest,
                                          size - kIpfixMessageHeaderLen)),
                 octets |-> Take(h.rest, size - kIpfixMessageHeaderLen),
                 rest |-> Drop(h.rest, size - kIpfixMessageHeaderLen)]
       IN  IF h.nbytes <= 0
           THEN \* the loop is not entered
                /\ IF end_of_stream(h.nbytes).err # "none"
                   THEN Fatal(end_of_stream(h.nbytes).err)
                        /\ UNCHANGED session
                   ELSE /\ pc' = "done"
                        /\ session' =
                              IF end_of_stream(h.nbytes).end_session
                              THEN Append(session, "end_session")
                              ELSE session
                        /\ UNCHANGED errs
                /\ nbytes' = h.nbytes
                /\ nreads' = 1
                /\ UNCHANGED << message, message_size, cur, offset, d,
                                source_vars, curmsg, calls, announced >>
           ELSE
           /\ curmsg' = fedmsg
           /\ stream' = IF header_error(h.nbytes, h.octets) # "none"
                           \/ d1.fault # "none"
                           \/ size < kIpfixMessageHeaderLen
                        THEN h.rest ELSE b.rest
           /\ UNCHANGED << source, fed, fedmsg, session, announced >>
           /\ IF header_error(h.nbytes, h.octets) # "none"
              THEN /\ Fatal(header_error(h.nbytes, h.octets))
                   /\ message' = h.octets
                   /\ nbytes' = h.nbytes
                   /\ calls' = <<>>
                   /\ nreads' = 1
                   /\ UNCHANGED << message_size, cur, offset, d >>
              ELSE
              /\ message_size' = size
              /\ d' = d1
              /\ calls' = << "start_message" >>
              /\ IF d1.fault # "none"
                 THEN /\ pc' = FaultPc(d1.fault)
                      /\ message' = h.octets
                      /\ nbytes' = h.nbytes
                      /\ nreads' = 1
                      /\ UNCHANGED << cur, offset, errs >>
                 ELSE IF ~(kIpfixMessageHeaderLen <= size)
                 THEN \* assert (cur <= message_end)
                      /\ pc' = "aborted"
                      /\ message' = h.octets
                      /\ nbytes' = h.nbytes
                      /\ cur' = kIpfixMessageHeaderLen
                      /\ nreads' = 1
                      /\ UNCHANGED << offset, errs >>
                 ELSE
                 /\ source # "open"
                    \/ Len(h.rest) >= size - kIpfixMessageHeaderLen
                 /\ message' = h.octets \o b.octets
                 /\ nbytes' = b.nbytes
                 /\ cur' = kIpfixMessageHeaderLen
                 /\ offset' = offset + kIpfixMessageHeaderLen
                 /\ nreads' = 2
                 /\ IF body_error(b.nbytes, size) # "none"
                    THEN Fatal(body_error(b.nbytes, size))
                    ELSE pc' = "sets" /\ UNCHANGED errs

\* the length the set callbacks are given: set_length - kIpfixSetHeaderLen
\* taken as the uint16_t the callbacks declare
set_content_length(set_length) ==
    (set_length - kIpfixSetHeaderLen) % 65536

\* one turn of the set loop: the set header, the start_*_set callback with
\* all it does, the end_*_set callback.  A turn that leaves cur where it was
\* is taken again on the same octets, without end.
Parse_Set(hb, ub, reuse) ==
    /\ pc = "sets"
    /\ UNCHANGED dp
    /\ cur + kIpfixSetHeaderLen <= message_size
    /\ LET set_id == decode_uint16(message, cur)
           set_length == decode_uint16(message, cur + 2)
           kind == SetKind(set_id)
           this == curmsg.sets[(Len(calls) + 1) \div 2]
           buf == cur + kIpfixSetHeaderLen
           length == set_content_length(set_length)
           d1 == IF kind = "data"
                 THEN start_data_set(d, message, set_id, length, buf,
                                     hb, ub, reuse)
                 ELSE start_template_set(ResetSetLog(d), message, length,
                                         buf, kind = "options_template",
                                         reuse)
       IN  IF set_error(cur, set_length, message_size) # "none"
           THEN /\ Fatal(set_error(cur, set_length, message_size))
                /\ UNCHANGED << parser_vars, d, source_vars, curmsg, calls,
                                session, nreads, announced >>
           ELSE
           /\ d' = d1
           /\ cur' = cur + set_length
           /\ announced' =
                 IF kind # "data"
                 THEN IF this.ok
                      THEN announced \cup {<<curmsg.domain, this.tid>>}
                      ELSE announced
                 ELSE IF d1.handler_install # <<>>
                      THEN announced \cup {<<curmsg.domain, this.tid>>}
                      ELSE announced
           /\ IF d1.fault # "none"
              THEN /\ pc' = FaultPc(d1.fault)
                   /\ calls' = Append(calls, "start_" \o kind \o "_set")
              ELSE /\ pc' = IF set_length = 0 THEN FaultPc("hang") ELSE "sets"
                   /\ calls' = calls \o << "start_" \o kind \o "_set",
                                           "end_" \o kind \o "_set" >>
           /\ UNCHANGED << message, message_size, offset, nbytes,
                           source_vars, curmsg, session, errs, nreads >>

\* the set loop ends: end_message, and the buffer is cleared for the next
\* header
Parse_EndMessage ==
    /\ pc = "sets"
    /\ UNCHANGED dp
    /\ ~(cur + kIpfixSetHeaderLen <= message_size)
    /\ d' = end_message(ResetSetLog(d))
    /\ calls' = Append(calls, "end_message")
    /\ IF d'.fault # "none"
       THEN pc' = FaultPc(d'.fault) /\ UNCHANGED << message, offset >>
       ELSE /\ pc' = "read"
            /\ offset' = offset + nbytes
            /\ message' = <<>>
    /\ UNCHANGED << message_size, cur, nbytes, source_vars, curmsg,
                    session, errs, nreads, announced >>

\* the choices open to the environment in a set: none unless the set is a
\* data set that reaches the unhandled_data_set handler
HandlerChoices ==
    IF pc = "sets" /\ d.unhandled_data_set_handler
       /\ SetKind(decode_uint16(message, cur)) = "data"
       /\ find_wire_template(d, decode_uint16(message, cur)) = NULL
    THEN HandlerMenu ELSE {NoHandler}

NullReadChoices(hb) ==
    IF hb \in HandlerMenu /\ HandlerChoices = HandlerMenu /\ hb.ret = "null"
    THEN {"crash", "again", "other"} ELSE {"crash"}

ReuseChoices ==
    IF \E a \in 1..Len(d.heap) : ~d.heap[a].live THEN BOOLEAN ELSE {FALSE}

Next ==
    \/ \E p \in CollectorPlacements : register_placement_template(p)
    \/ register_unhandled_data_set_handler
    \/ use_matched_template_cache_on
    \/ Parse_Start
    \/ \E m \in Messages : Source_Feed(m)
    \/ \E how \in {"eof", "error"} : Source_End(how)
    \/ Parse_Message
    \/ \E hb \in HandlerChoices : \E ub \in NullReadChoices(hb) :
         \E reuse \in ReuseChoices : Parse_Set(hb, ub, reuse)
    \/ Parse_EndMessage

Spec == Init /\ [][Next]_vars

(***************************************************************************)
(* DecodePlan on its own: a wire template, a placement template for some   *)
(* of its elements, and a buffer holding one record and perhaps the start  *)
(* of the next, of which execute is given the first length octets.         *)
(***************************************************************************)
MaxVarlen == 300
USHRT_MAX == 65535

IE_U32_2 == InfoElementPtr(0, 10, 2)
IE_U32_8 == InfoElementPtr(0, 10, 8)
IE_I32_1 == InfoElementPtr(0, 434, 1)
IE_BOOL == InfoElementPtr(0, 276, 1)
IE_VAR == InfoElementPtr(0, 313, kIpfixVarlen)
IE_OCT3 == InfoElementPtr(0, 313, 3)
IE_F64_4 == InfoElementPtr(0, 320, 4)
IE_F64_8 == InfoElementPtr(0, 320, 8)
IE_F64_2 == InfoElementPtr(0, 320, 2)
IE_F64_9 == InfoElementPtr(0, 320, 9)
IE_U8_2 == InfoElementPtr(0, 4, 2)
IE_U16 == InfoElementPtr(0, 7, 2)
IE_U16_1 == InfoElementPtr(0, 7, 1)
IE_U16_3 == InfoElementPtr(0, 7, 3)
IE_U32 == InfoElementPtr(0, 10, 4)
IE_U64 == InfoElementPtr(0, 1, 8)
IE_U64_3 == InfoElementPtr(0, 1, 3)
IE_I8 == InfoElementPtr(29305, 11, 1)
IE_I8_2 == InfoElementPtr(29305, 11, 2)
IE_I16 == InfoElementPtr(29305, 12, 2)
IE_I64 == InfoElementPtr(29305, 13, 8)
IE_F32 == InfoElementPtr(29305, 14, 4)
IE_F32_8 == InfoElementPtr(29305, 14, 8)
IE_BOOL_2 == InfoElementPtr(0, 276, 2)
IE_MAC == InfoElementPtr(0, 56, 6)
IE_MAC_4 == InfoElementPtr(0, 56, 4)
IE_STR == InfoElementPtr(0, 82, kIpfixVarlen)
IE_STR_5 == InfoElementPtr(0, 82, 5)
IE_B_0 == InfoElementPtr(0, 4, 0)
IE_SEC == InfoElementPtr(0, 150, 4)
IE_SEC_8 == InfoElementPtr(0, 150, 8)
IE_MSEC == InfoElementPtr(0, 152, 8)
IE_MSEC_9 == InfoElementPtr(0, 152, 9)
IE_USEC == InfoElementPtr(0, 154, 8)
IE_USEC_4 == InfoElementPtr(0, 154, 4)
IE_USEC_9 == InfoElementPtr(0, 154, 9)
IE_NSEC == InfoElementPtr(0, 156, 8)
IE_A_2 == InfoElementPtr(0, 8, 2)
IE_IP6 == InfoElementPtr(0, 27, 16)
IE_IP6_4 == InfoElementPtr(0, 27, 4)
IE_LONG1 == InfoElementPtr(29305, 2, 40000)
IE_LONG2 == InfoElementPtr(29305, 3, 30000)

DecodeTemplates ==
    { << IE_U32_2 >>, << IE_I32_1, IE_B >>, << IE_B, IE_U32_2 >>,
      << IE_BOOL, IE_B >>, << IE_B, IE_BOOL, IE_U32_2 >>,
      << IE_VAR, IE_B >>, << IE_B, IE_VAR >>, << IE_F64_4, IE_B >>,
      << IE_OCT3, IE_B >>, << IE_A, IE_E, IE_B >>, << IE_U32_8 >>,
      << IE_F64_8 >>, << IE_E, IE_A, IE_U32_8 >> }

\* a variable length on the wire: one octet, or 255 and two octets
EncodeVarlen(l, form) ==
    IF form = 1 THEN << l >> ELSE << UCHAR_MAX >> \o U16(l)

\* what an exporter may send for one element
Encodings(ie) ==
    CASE ie = IE_U32_2 -> { << 18, 52 >>, << 255, 254 >> }
      [] ie = IE_I32_1 -> { << 255 >>, << 1 >> }
      [] ie = IE_BOOL -> { << 0 >>, << 1 >>, << 2 >>, << 3 >> }
      [] ie = IE_VAR -> { EncodeVarlen(0, 1), EncodeVarlen(2, 1) \o << 9, 8 >>,
                          EncodeVarlen(2, 3) \o << 9, 8 >>,
                          EncodeVarlen(0, 3) }
      [] ie = IE_STR -> { EncodeVarlen(0, 1), EncodeVarlen(1, 1) \o << 97 >>,
                          EncodeVarlen(1, 3) \o << 97 >> }
      [] ie = IE_OCT3 -> { << 1, 2, 3 >> }
      [] ie = IE_F64_4 -> { << 63, 128, 0, 0 >> }
      [] ie = IE_A -> { << 10, 0, 0, 1 >> }
      [] ie = IE_E -> { << 5, 6 >> }
      [] ie = IE_B -> { << 7 >> }
      [] OTHER -> { [k \in 1..ie.len |-> k] }

RECURSIVE FieldChoices(_)
FieldChoices(ies) ==
    IF ies = <<>> THEN { <<>> }
    ELSE { << e >> \o r : e \in Encodings(Head(ies)),
                          r \in FieldChoices(Tail(ies)) }

\* a record of the template, with or without the first octet of the next
\* record behind it, and the number of octets of it given to execute
BufChoices(t) ==
    UNION { { [fields |-> f, buf |-> Flatten(f) \o tr, length |-> n] :
                n \in 1..Len(Flatten(f) \o tr) } :
            f \in FieldChoices(t), tr \in { <<>>, << 1 >> } }

ExecuteInputsOf(t) ==
    { [stage |-> "input", kind |-> "execute", big_endian |-> b,
       wire_template |-> t, placement |-> pl, fields |-> x.fields,
       buf |-> x.buf, length |-> x.length,
       plan |-> <<>>, decisions |-> <<>>, fault |-> "none", consumed |-> 0,
       written |-> 0, dst |-> Untouched(pl)] :
         b \in BOOLEAN, pl \in SUBSET { IEKey(t[i]) : i \in DOMAIN t },
         x \in BufChoices(t) }

ExecuteInputs == UNION { ExecuteInputsOf(t) : t \in DecodeTemplates }

\* a length in one of its encodings, and the end of the buffer: after
\* the first length octet, one octet short of the content, at its end
\* and one octet behind it
VarlenInputsOf(l, form) ==
    { [stage |-> "input", kind |-> "varlen", l |-> l, form |-> form,
       buf |-> EncodeVarlen(l, form), length |-> n,
       out |-> [len |-> 0, cur |-> 0, fault |-> "none"]] :
         n \in { 1, form + l - 1, form + l, form + l + 1 } \ { -1 } }

\* the one-octet form holds lengths below 255 only
VarlenForms(l) == IF l < UCHAR_MAX THEN { 1, 3 } ELSE { 3 }

VarlenInputs ==
    UNION { UNION { VarlenInputsOf(l, form) : form \in VarlenForms(l) } :
              l \in (0..MaxVarlen) \cup { USHRT_MAX } }

\* the wire templates of the data sets under test
DataSetTemplates ==
    { << IE_B, IE_U32_2 >>, << IE_B, IE_VAR >>, << IE_VAR, IE_B >>,
      << IE_A, IE_E, IE_B >>, << IE_B_0 >>, << IE_STR >>,
      << IE_VAR, IE_STR >> }

\* the records of a data set: one or two, booleans and lengths in order
RecordChoices(t) ==
    FieldChoices(t)
      \cup { r1 \o r2 : r1 \in FieldChoices(t), r2 \in FieldChoices(t) }

\* a data set of whole records with up to two octets of padding behind
\* them, for a wire template and a registered placement template
DataSetInputsOf(t) ==
    { [stage |-> "input", kind |-> "dataset", wire_template |-> t,
       p |-> p, fields |-> f, pad |-> pad, buf |-> Flatten(f) \o pad,
       length |-> Len(Flatten(f) \o pad)] :
         p \in 1..Len(PlacementObjects), f \in RecordChoices(t),
         pad \in { <<>>, << 0 >>, << 0, 0 >> } }

DataSetInputs == UNION { DataSetInputsOf(t) : t \in DataSetTemplates }

\* elements of every type of the information model: at the length of the
\* native type, at a reduced length and at a length the type cannot have
PlanElements ==
    { IE_B, IE_U8_2, IE_U16, IE_U16_1, IE_U16_3, IE_U32_2, IE_U32, IE_U32_8,
      IE_U64, IE_U64_3, IE_I8, IE_I8_2, IE_I16, IE_I32_1, IE_I64, IE_F32,
      IE_F32_8, IE_F64_4, IE_F64_8, IE_F64_2, IE_F64_9, IE_BOOL, IE_BOOL_2,
      IE_MAC, IE_MAC_4, IE_STR, IE_STR_5, IE_VAR, IE_OCT3, IE_SEC, IE_SEC_8,
      IE_MSEC, IE_MSEC_9, IE_USEC, IE_USEC_4, IE_USEC_9, IE_NSEC, IE_A,
      IE_A_2, IE_IP6, IE_IP6_4, IE_E, IE_LONG1, IE_LONG2 }

\* wire templates to compile: an element alone, and between two others
PlanTemplates ==
    { << e >> : e \in PlanElements }
      \cup { << IE_E, e, IE_A >> : e \in PlanElements \ { IE_E, IE_A, IE_A_2 } }
      \cup { << IE_LONG1, IE_LONG2, IE_B >>, << IE_E, IE_OCT3, IE_USEC >>,
              << IE_E, IE_VAR, IE_U32_2 >> }

\* a wire template and the elements a placement template has an entry
\* for, on a host of either byte order
PlanInputsOf(t) ==
    { [stage |-> "input", kind |-> "plan", big_endian |-> b,
       wire_template |-> t, placement |-> pl, plan |-> <<>>,
       decisions |-> <<>>, fault |-> "none"] :
         b \in BOOLEAN, pl \in SUBSET { IEKey(t[i]) : i \in DOMAIN t } }

PlanInputs == UNION { PlanInputsOf(t) : t \in PlanTemplates }

DecodeInit ==
    /\ pc = "decode"
    /\ message = <<>>
    /\ message_size = 0
    /\ cur = 0
    /\ offset = 0
    /\ nbytes = 0
    /\ d = NewHandler
    /\ stream = <<>>
    /\ source = "open"
    /\ fed = 0
    /\ fedmsg = NoMessage
    /\ curmsg = NoMessage
    /\ calls = <<>>
    /\ session = <<>>
    /\ errs = <<>>
    /\ nreads = 0
    /\ announced = {}
    /\ dp \in ExecuteInputs \cup VarlenInputs \cup DataSetInputs
               \cup PlanInputs

decode_unchanged ==
    UNCHANGED << pc, parser_vars, d, source_vars, seen_vars >>

\* DecodePlan::DecodePlan for the templates under test
Decode_Plan(uninit) ==
    /\ pc = "decode"
    /\ dp.stage = "input" /\ dp.kind \in { "execute", "plan" }
    /\ LET c == DecodePlan(dp.placement, dp.wire_template, dp.big_endian,
                           uninit)
       IN  dp' = [dp EXCEPT !.stage = IF c.fault = "none" THEN "planned"
                                      ELSE "done",
                            !.plan = c.plan,
                            !.decisions = c.decisions,
                            !.fault = c.fault]
    /\ decode_unchanged

\* DecodePlan::execute on the buffer under test
Decode_Execute ==
    /\ pc = "decode"
    /\ dp.stage = "planned" /\ dp.kind = "execute"
    /\ LET x == execute(dp.buf, 0, dp.length, dp.plan, dp.dst)
       IN  dp' = [dp EXCEPT !.stage = "done",
                            !.fault = x.fault,
                            !.consumed = x.consumed,
                            !.written = x.written,
                            !.dst = x.dst]
    /\ decode_unchanged

\* decode_varlen_length on the length encoding under test
Decode_Varlen ==
    /\ pc = "decode"
    /\ dp.stage = "input" /\ dp.kind = "varlen"
    /\ dp' = [dp EXCEPT !.stage = "done",
                        !.out = decode_varlen_length(dp.buf, 0, dp.length)]
    /\ decode_unchanged

\* the handler with the wire template under test registered under
\* template id 256 and the two placement templates registered
Collecting(t) ==
    [NewHandler EXCEPT
       !.heap = << [live |-> TRUE, ies |-> t] >>,
       !.wire_templates = MapPut(<<>>, make_template_key(NewHandler, 256), 1),
       !.placement_templates = [p \in 1..Len(PlacementObjects) |-> p],
       !.callbacks = 1..Len(PlacementObjects)]

\* start_data_set on the data set under test
Decode_DataSet(collector) ==
    /\ pc = "decode"
    /\ dp.stage = "input" /\ dp.kind = "dataset"
    /\ d' = start_data_set([Collecting(dp.wire_template)
                               EXCEPT !.collector = collector],
                           dp.buf, 256, dp.length, 0, NoHandler, "crash",
                           FALSE)
    /\ dp' = [dp EXCEPT !.stage = "done"]
    /\ UNCHANGED << pc, parser_vars, source_vars, seen_vars >>

DecodeNext ==
    \/ \E uninit \in BOOLEAN : Decode_Plan(uninit)
    \/ Decode_Execute
    \/ Decode_Varlen
    \/ \E collector \in CollectorChoices : Decode_DataSet(collector)

DecodeSpec == DecodeInit /\ [][DecodeNext]_vars

(***************************************************************************)
(* IETemplate and MatchTemplate on their own: two templates built element  *)
(* by element, compared, and announced one after the other under one       *)
(* template id.                                                            *)
(***************************************************************************)
MaxFields == 2

\* IETemplate::IETemplate
NewTemplate == [ies |-> <<>>, minlen |-> 0]

\* add that counts nothing for an element of variable length
IETemplate_add_varlen_free(t, ie) ==
    [ies |-> Append(t.ies, ie),
     minlen |-> t.minlen + (IF ie.len = kIpfixVarlen THEN 0 ELSE ie.len)]

\* IETemplate::add
IETemplate_add(t, ie) ==
    [ies |-> Append(t.ies, ie),
     minlen |-> t.minlen + (IF ie.len = kIpfixVarlen THEN 1 ELSE ie.len)]

\* MatchTemplate::add
MatchTemplate_add(t, ie) ==
    [ies |-> Append(t.ies, ie),
     minlen |-> t.minlen + (IF ie.len = kIpfixVarlen THEN 1 ELSE ie.len)]

\* MatchTemplate::clear
MatchTemplate_clear(t) == [ies |-> <<>>, minlen |-> 0]

\* MatchTemplate::mimic: clear, then add every element of rhs
RECURSIVE mimic_from(_, _, _)
mimic_from(t, rhs, i) ==
    IF i > Len(rhs.ies) THEN t
    ELSE mimic_from(MatchTemplate_add(t, rhs.ies[i]), rhs, i + 1)

mimic(t, rhs) == mimic_from(MatchTemplate_clear(t), rhs, 1)

\* IETemplate::operator!=
IETemplateNe(l, r) == ~IETemplateEq(l, r)

\* the elements the templates under test are built from; the two octet
\* arrays differ in their length only
TemplateElements == { IE_A, IE_B, IE_VAR, IE_OCT3 }

TemplateInit ==
    /\ pc = "template"
    /\ message = <<>>
    /\ message_size = 0
    /\ cur = 0
    /\ offset = 0
    /\ nbytes = 0
    /\ d = NewHandler
    /\ stream = <<>>
    /\ source = "open"
    /\ fed = 0
    /\ fedmsg = NoMessage
    /\ curmsg = NoMessage
    /\ calls = <<>>
    /\ session = <<>>
    /\ errs = <<>>
    /\ nreads = 0
    /\ announced = {}
    /\ \E c \in { "IETemplate", "MatchTemplate" } :
         dp = [stage |-> "template", class |-> c, l |-> NewTemplate,
               r |-> NewTemplate, last |-> "new"]

template_unchanged ==
    UNCHANGED << pc, parser_vars, d, source_vars, seen_vars >>

\* add on the left or on the right template
Template_add(left, ie) ==
    /\ pc = "template"
    /\ dp.stage = "template"
    /\ Len(IF left THEN dp.l.ies ELSE dp.r.ies) < MaxFields
    /\ LET add(t) == IF dp.class = "IETemplate" THEN IETemplate_add(t, ie)
                     ELSE MatchTemplate_add(t, ie)
       IN  dp' = IF left THEN [dp EXCEPT !.l = add(@), !.last = "add"]
                 ELSE [dp EXCEPT !.r = add(@), !.last = "add"]
    /\ template_unchanged

\* clear on the left template
Template_clear ==
    /\ pc = "template"
    /\ dp.stage = "template"
    /\ dp.class = "MatchTemplate"
    /\ dp.last # "clear"
    /\ dp' = [dp EXCEPT !.l = MatchTemplate_clear(@), !.last = "clear"]
    /\ template_unchanged

\* the left template mimics the right one
Template_mimic ==
    /\ pc = "template"
    /\ dp.stage = "template"
    /\ dp.class = "MatchTemplate"
    /\ dp' = [dp EXCEPT !.l = mimic(@, dp.r), !.last = "mimic"]
    /\ template_unchanged

\* operator== and operator!= on the two templates, both ways round
Template_compare ==
    /\ pc = "template"
    /\ dp.stage = "template"
    /\ dp' = [stage |-> "compared", class |-> dp.class, l |-> dp.l,
              r |-> dp.r, last |-> "compare",
              eq |-> IETemplateEq(dp.l.ies, dp.r.ies),
              ne |-> IETemplateNe(dp.l.ies, dp.r.ies),
              rev |-> IETemplateEq(dp.r.ies, dp.l.ies),
              self |-> IETemplateEq(dp.l.ies, dp.l.ies)]
    /\ template_unchanged

\* the handler with the left template registered under template id 256
\* and the right template under construction for the same id, all its
\* announced field specifiers seen
Announcing(l, r) ==
    [NewHandler EXCEPT
       !.heap = << [live |-> TRUE, ies |-> l.ies],
                   [live |-> TRUE, ies |-> r.ies] >>,
       !.wire_templates = MapPut(<<>>, make_template_key(NewHandler, 256), 1),
       !.current_wire_template = 2,
       !.current_template_id = 256,
       !.current_field_count = Len(r.ies),
       !.current_field_no = Len(r.ies)]

\* end_template_record on the right template, the left one registered
Template_announce ==
    /\ pc = "template"
    /\ dp.stage = "template"
    /\ dp.class = "IETemplate"
    /\ dp.l.ies # <<>>
    /\ d' = end_template_record(Announcing(dp.l, dp.r))
    /\ dp' = [dp EXCEPT !.stage = "announced", !.last = "announce"]
    /\ UNCHANGED << pc, parser_vars, source_vars, seen_vars >>

\* the callbacks of one template record: field_specifier for every
\* element until one returns an error, then end_template_record
RECURSIVE record_callbacks(_, _)
record_callbacks(h, ies) ==
    IF h.fault # "none" \/ h.ret # "ok" THEN h
    ELSE IF ies = <<>> THEN end_template_record(h)
    ELSE record_callbacks(
             field_specifier(h, Head(ies).pen # 0, Head(ies).id,
                             Head(ies).len, Head(ies).pen),
             Tail(ies))

\* a parser announcing field_count fields and then calling
\* field_specifier for the elements of the left template
Template_record(field_count) ==
    /\ pc = "template"
    /\ dp.stage = "template"
    /\ dp.class = "IETemplate"
    /\ d' = record_callbacks(
               start_template_record(NewHandler, 256, field_count, FALSE),
               dp.l.ies)
    /\ dp' = [dp EXCEPT !.stage = "recorded", !.last = "record",
                        !.r = [field_count |-> field_count]]
    /\ UNCHANGED << pc, parser_vars, source_vars, seen_vars >>

TemplateNext ==
    \/ \E left \in BOOLEAN : \E ie \in TemplateElements : Template_add(left, ie)
    \/ Template_clear
    \/ Template_mimic
    \/ Template_compare
    \/ Template_announce
    \/ \E field_count \in 0..(MaxFields + 1) : Template_record(field_count)

TemplateSpec == TemplateInit /\ [][TemplateNext]_vars

(***************************************************************************)
(* The content handler over a run of messages.  Every message holds one    *)
(* set of template 256, in observation domain 0 or 1: a template set with  *)
(* one record, or a data set of five octets.  The log notes, in order,     *)
(* each template installed under a key and each incomplete-match warning.  *)
(***************************************************************************)
MaxCalls == 5

\* the wire templates announced: the first placement matches the one in
\* part and the other in full
HandlerTemplates == { << IE_A, IE_B >>, << IE_A >> }

HandlerInit ==
    /\ pc = "handler"
    /\ message = <<>>
    /\ message_size = 0
    /\ cur = 0
    /\ offset = 0
    /\ nbytes = 0
    /\ \E cache \in BOOLEAN, p \in CollectorPlacements :
         d = [NewHandler EXCEPT
                !.placement_templates = << p >>,
                !.callbacks = { p },
                !.use_matched_template_cache = cache]
    /\ stream = <<>>
    /\ source = "open"
    /\ fed = 0
    /\ fedmsg = NoMessage
    /\ curmsg = NoMessage
    /\ calls = <<>>
    /\ session = <<>>
    /\ errs = <<>>
    /\ nreads = 0
    /\ announced = {}
    /\ dp = [stage |-> "handler", ncalls |-> 0, log |-> <<>>,
             last |-> "new", domains |-> {}]

\* the keys that have a template in h2 they did not have in h1
Installed(h1, h2) ==
    { k \in DOMAIN h2.wire_templates :
        k \notin DOMAIN h1.wire_templates
        \/ h2.wire_templates[k] # h1.wire_templates[k] }

\* the log after a message that took the handler from h1 to h2
Logged(log, h1, h2) ==
    log
      \o [i \in 1..Cardinality(Installed(h1, h2)) |->
            << "install", make_template_key(h2, 256) >>]
      \o [i \in 1..(Len(h2.incomplete_warnings)
                      - Len(h1.incomplete_warnings)) |->
            << "warn",
               h2.incomplete_warnings[Len(h1.incomplete_warnings) + i] >>]

\* the calls of the parser around the set of a message: start_message
\* before it, and end_message after it unless a call before has ended the
\* parse
MessageStart(h, domain) ==
    start_message(h, kIpfixVersion, kIpfixMinMessageLen, 1, 1, domain, 0)

MessageEnd(h2) == IF h2.fault # "none" THEN h2 ELSE end_message(h2)

handler_unchanged == UNCHANGED << pc, parser_vars, source_vars, seen_vars >>

\* a message with a template set announcing template 256 as ies
Handler_template(domain, ies, reuse) ==
    /\ pc = "handler"
    /\ dp.ncalls < MaxCalls
    /\ d.fault = "none"
    /\ LET bytes == TemplateSet(256, ies).bytes
           set(h) == IF h.fault # "none" THEN h
                     ELSE start_template_set(
                              ResetSetLog(h), bytes,
                              Len(bytes) - kIpfixSetHeaderLen,
                              kIpfixSetHeaderLen, FALSE, reuse)
           after(h2) ==
               /\ d' = h2
               /\ dp' = [dp EXCEPT !.ncalls = @ + 1,
                                   !.log = Logged(@, d, h2),
                                   !.last = "template",
                                   !.domains = @ \cup { domain }]
       IN  after(MessageEnd(set(MessageStart(d, domain))))
    /\ handler_unchanged

\* a message with a data set of template 256
Handler_data(domain) ==
    /\ pc = "handler"
    /\ dp.ncalls < MaxCalls
    /\ d.fault = "none"
    /\ LET bytes == DataSet(256, Payload5).bytes
           set(h) == IF h.fault # "none" THEN h
                     ELSE start_data_set(h, bytes, 256, Len(Payload5),
                                         kIpfixSetHeaderLen, NoHandler,
                                         "crash", FALSE)
           after(h2) ==
               /\ d' = h2
               /\ dp' = [dp EXCEPT !.ncalls = @ + 1,
                                   !.log = Logged(@, d, h2),
                                   !.last = "data",
                                   !.domains = @ \cup { domain }]
       IN  after(MessageEnd(set(MessageStart(d, domain))))
    /\ handler_unchanged

HandlerNext ==
    \/ \E domain \in Domains, ies \in HandlerTemplates, reuse \in BOOLEAN :
         Handler_template(domain, ies, reuse)
    \/ \E domain \in Domains : Handler_data(domain)
    \/ \E p \in CollectorPlacements : register_placement_template(p)

HandlerSpec == HandlerInit /\ [][HandlerNext]_vars

(***************************************************************************)
(* The parser of a collector that registers no unhandled-data-set          *)
(* override, fed messages whose set headers announce fewer octets than a   *)
(* set header has, whose field specifiers have the enterprise bit set and  *)
(* the enterprise number 0, or whose template records have no fields.      *)
(***************************************************************************)
\* one turn of the set loop as the exporter's octets make it come out
Turn(kind, tid) ==
    [kind |-> kind, tid |-> tid, ok |-> FALSE, ies |-> <<>>, octets |-> 0]

ShortSetMessage(body, turns) ==
    [bytes |-> Header(kIpfixVersion, kIpfixMessageHeaderLen + Len(body), 0)
               \o body,
     breaks |-> "short_set",
     sets |-> turns,
     domain |-> 0,
     then |-> "open"]

ShortSetMessages ==
    { \* set 300 of length 0
      ShortSetMessage(U16(300) \o U16(0), << Turn("data", 300) >>),
      \* set 300 of length 2; the next header is read two octets on: a
      \* template set of length 6
      ShortSetMessage(U16(300) \o U16(2) \o U16(6) \o U16(0),
                      << Turn("data", 300), Turn("template", 0) >>),
      \* set 300 of length 3; the next header is read three octets on: data
      \* set 768 of length 4
      ShortSetMessage(U16(300) \o U16(3) \o <<0, 0, 4>>,
                      << Turn("data", 300), Turn("data", 768) >>),
      WholeMessage(0, << TemplateSet(256, <<IE_A>>),
                         DataSet(256, Payload8) >>, <<>>),
      WholeMessage(0, << DataSet(256, Payload8) >>, <<>>) }

\* a template set whose one field specifier has the enterprise bit set
\* and carries the enterprise number 0
EnterpriseZeroSet(tid) ==
    [kind |-> "template", tid |-> tid, ok |-> FALSE, ies |-> <<>>, octets |-> 0,
     bytes |-> U16(kIpfixTemplateSetID)
               \o U16(kIpfixSetHeaderLen + kTemplateHeaderLen
                      + kFieldSpecifierLen + kEnterpriseLen)
               \o U16(tid) \o U16(1)
               \o U16(32768 + 1) \o U16(2) \o U32(0)]

\* a template set of one template record with field count 0
EmptyTemplateSet(tid) ==
    [kind |-> "template", tid |-> tid, ok |-> FALSE, ies |-> <<>>, octets |-> 0,
     bytes |-> U16(kIpfixTemplateSetID)
               \o U16(kIpfixSetHeaderLen + kTemplateHeaderLen)
               \o U16(tid) \o U16(0)]

MalformedMessages ==
    ShortSetMessages
      \cup { Broken(WholeMessage(0, << EmptyTemplateSet(256) >>, <<>>),
                    "field_count_0",
                    WholeMessage(0, << EmptyTemplateSet(256) >>, <<>>).bytes,
                    "open"),
             WholeMessage(0, << TemplateSet(256, << IE_A, IE_B >>),
                                DataSet(256, Payload5) >>, <<>>) }
      \cup { Broken(WholeMessage(0, << EnterpriseZeroSet(258) >>, <<>>),
                    "enterprise_zero",
                    WholeMessage(0, << EnterpriseZeroSet(258) >>, <<>>).bytes,
                    "open"),
             WholeMessage(0, << TemplateSet(258, << IE_E, IE_A >>) >>, <<>>) }

SetLoopNext ==
    \/ \E p \in CollectorPlacements : register_placement_template(p)
    \/ use_matched_template_cache_on
    \/ Parse_Start
    \/ \E m \in MalformedMessages : Source_Feed(m)
    \/ \E how \in {"eof", "error"} : Source_End(how)
    \/ Parse_Message
    \/ \E reuse \in ReuseChoices : Parse_Set(NoHandler, "crash", reuse)
    \/ Parse_EndMessage

SetLoopSpec == Init /\ [][SetLoopNext]_vars

(***************************************************************************)
(* UDPInputSource: reads served from the datagram in packet_buffer.        *)
(***************************************************************************)
MaxReads == 4

\* what recvfrom may return: -1, or the length of the datagram received
RecvResults == { -1, 0, 2, 3 }

\* the lengths a caller asks read for
ReadLengths == { 0, 1, 2 }

\* the octets of the n-th datagram received, each marked with n
Datagram(n, length) == [i \in 1..length |-> << n, i >>]

\* the parser's variables have no part in this
IdleParser ==
    /\ message = <<>>
    /\ message_size = 0
    /\ cur = 0
    /\ offset = 0
    /\ nbytes = 0
    /\ d = NewHandler
    /\ stream = <<>>
    /\ source = "open"
    /\ fed = 0
    /\ fedmsg = NoMessage
    /\ curmsg = NoMessage
    /\ calls = <<>>
    /\ session = <<>>
    /\ errs = <<>>
    /\ nreads = 0
    /\ announced = {}

\* no read yet
NoRead == [len |-> 0, ret |-> 0, octets |-> <<>>, received |-> FALSE,
           read_before |-> 0, lenght_before |-> 0, resynced |-> FALSE,
           left |-> 0, consumed |-> 0]

UDPInit ==
    /\ pc = "udp"
    /\ IdleParser
    /\ dp = [stage |-> "udp", packet_lenght |-> 0, packet_read |-> 0,
             packet_buffer |-> <<>>, nrecv |-> 0, ncalls |-> 0,
             resynced |-> FALSE, last |-> NoRead]

udp_unchanged == UNCHANGED << pc, parser_vars, d, source_vars, seen_vars >>

\* UDPInputSource::read(buf, len); r is what recvfrom returns if it is
\* called
UDP_read(len, r) ==
    /\ pc = "udp"
    /\ dp.ncalls < MaxReads
    /\ dp.packet_read # dp.packet_lenght => r = -1
    /\ LET recv == dp.packet_read = dp.packet_lenght
           packet_lenght == IF recv THEN r ELSE dp.packet_lenght
           packet_buffer == IF recv /\ r >= 0
                            THEN Datagram(dp.nrecv + 1, r)
                            ELSE dp.packet_buffer
           packet_read == IF recv THEN 0 ELSE dp.packet_read
           fits == packet_read + len <= packet_lenght
       IN  dp' = [dp EXCEPT
                    !.packet_lenght = packet_lenght,
                    !.packet_buffer = packet_buffer,
                    !.packet_read = IF fits THEN packet_read + len
                                    ELSE packet_read,
                    !.nrecv = IF recv THEN @ + 1 ELSE @,
                    !.ncalls = @ + 1,
                    !.resynced = FALSE,
                    !.last = [len |-> len,
                              ret |-> IF fits THEN len ELSE -1,
                              octets |->
                                  IF fits
                                  THEN SubSeq(packet_buffer, packet_read + 1,
                                              packet_read + len)
                                  ELSE <<>>,
                              received |-> recv,
                              read_before |-> dp.packet_read,
                              lenght_before |-> dp.packet_lenght,
                              resynced |-> dp.resynced,
                              left |-> packet_lenght - packet_read,
                              consumed |-> IF fits THEN len ELSE 0]]
    /\ udp_unchanged

\* UDPInputSource::resync
UDP_resync ==
    /\ pc = "udp"
    /\ dp.ncalls < MaxReads
    /\ ~dp.resynced
    /\ dp' = [dp EXCEPT !.packet_read = 0, !.packet_lenght = 0,
                        !.ncalls = @ + 1, !.resynced = TRUE]
    /\ udp_unchanged

UDPNext ==
    \/ \E len \in ReadLengths, r \in RecvResults : UDP_read(len, r)
    \/ UDP_resync

UDPSpec == UDPInit /\ [][UDPNext]_vars

(***************************************************************************)
(* TCPInputSource and FileInputSource: the offset of the message being     *)
(* read.  Both objects are given the same results of ::read and the same   *)
(* calls of advance_message_offset.                                         *)
(***************************************************************************)
MaxOffsetCalls == 5

\* what ::read may return: -1, 0 at end of file, or the number of octets
ReadResults == { -1, 0, 1, 2 }

\* TCPInputSource::TCPInputSource, FileInputSource::FileInputSource
NewInputSource == [message_offset |-> 0, current_offset |-> 0]

\* TCPInputSource::read, ret being what ::read returned
TCPInputSource_read(s, ret) ==
    IF ret > 0
    THEN [s EXCEPT !.current_offset = @ + s.message_offset]
    ELSE s

\* FileInputSource::read, ret being what ::read returned
FileInputSource_read(s, ret) ==
    IF ret > 0
    THEN [s EXCEPT !.current_offset = @ + ret]
    ELSE s

\* TCPInputSource::advance_message_offset and
\* FileInputSource::advance_message_offset
advance_message_offset(s) ==
    [s EXCEPT !.message_offset = @ + s.current_offset,
              !.current_offset = 0]

\* TCPInputSource::get_message_offset and
\* FileInputSource::get_message_offset
get_message_offset(s) == s.message_offset

OffsetInit ==
    /\ pc = "offsets"
    /\ IdleParser
    /\ dp = [stage |-> "offsets", tcp |-> NewInputSource,
             file |-> NewInputSource, returned |-> 0, advanced |-> 0,
             nadvance |-> 0, ncalls |-> 0]

\* a read of both sources with the same result
Offset_read(ret) ==
    /\ pc = "offsets"
    /\ dp.ncalls < MaxOffsetCalls
    /\ dp' = [dp EXCEPT
                !.tcp = TCPInputSource_read(@, ret),
                !.file = FileInputSource_read(@, ret),
                !.returned = IF ret > 0 THEN @ + ret ELSE @,
                !.ncalls = @ + 1]
    /\ udp_unchanged

\* advance_message_offset of both sources
Offset_advance ==
    /\ pc = "offsets"
    /\ dp.ncalls < MaxOffsetCalls
    /\ dp' = [dp EXCEPT
                !.tcp = advance_message_offset(@),
                !.file = advance_message_offset(@),
                !.advanced = dp.returned,
                !.nadvance = @ + 1,
                !.ncalls = @ + 1]
    /\ udp_unchanged

OffsetNext ==
    \/ \E ret \in ReadResults : Offset_read(ret)
    \/ Offset_advance

OffsetSpec == OffsetInit /\ [][OffsetNext]_vars

(***************************************************************************)
(* fcold's Imp: one worker thread in Imp::work, producer threads in        *)
(* Imp::enqueue_mbuf and one thread in Imp::stop.  A step is what a thread *)
(* does between two points where another thread can act on run, the queue, *)
(* its mutex or its condition variable.                                     *)
(***************************************************************************)
MaxMbufs == 2

Producers == { 1, 2 }

NoMbuf == << >>

\* Imp::Imp, the worker started and about to test run
ImpInit ==
    /\ pc = "imp"
    /\ IdleParser
    /\ dp = [stage |-> "imp", run |-> TRUE, mbq |-> << >>,
             mbqmtx |-> << >>, waiting |-> FALSE,
             wpc |-> "work", mb |-> NoMbuf,
             spc |-> "idle",
             ppc |-> [p \in Producers |-> "idle"],
             sent |-> [p \in Producers |-> 0],
             enqueued |-> << >>, collected |-> << >>,
             observed_stop |-> FALSE, collected_then |-> 0,
             unlocked_access |-> FALSE, woken |-> "never"]

\* work: while (run)
work_test ==
    /\ pc = "imp"
    /\ dp.wpc = "work"
    /\ dp' = [dp EXCEPT !.wpc = IF dp.run THEN "lock" ELSE "exited"]
    /\ udp_unchanged

\* next_mbuf: std::unique_lock<std::mutex> lock(mbqmtx)
next_mbuf_lock ==
    /\ pc = "imp"
    /\ dp.wpc = "lock"
    /\ dp.mbqmtx = << >>
    /\ dp' = [dp EXCEPT !.mbqmtx = << "worker" >>, !.wpc = "test"]
    /\ udp_unchanged

\* next_mbuf: while (mbq.size() == 0 && run)
next_mbuf_test ==
    /\ pc = "imp"
    /\ dp.wpc = "test"
    /\ dp' = [dp EXCEPT
                !.wpc = IF Len(dp.mbq) = 0 /\ dp.run THEN "wait"
                        ELSE "check",
                !.unlocked_access = @ \/ dp.mbqmtx # << "worker" >>]
    /\ udp_unchanged

\* next_mbuf: mbqcv.wait(mbqmtx), the mutex released and the thread
\* blocked in one step
next_mbuf_wait ==
    /\ pc = "imp"
    /\ dp.wpc = "wait"
    /\ dp' = [dp EXCEPT !.mbqmtx = << >>, !.waiting = TRUE,
                        !.wpc = "blocked"]
    /\ udp_unchanged

\* next_mbuf: mbqcv.wait returns after a notify_all, the mutex taken again
next_mbuf_wake ==
    /\ pc = "imp"
    /\ dp.wpc = "blocked"
    /\ ~dp.waiting
    /\ dp.mbqmtx = << >>
    /\ dp' = [dp EXCEPT !.mbqmtx = << "worker" >>, !.wpc = "test"]
    /\ udp_unchanged

\* a spurious wake-up of mbqcv.wait, which may happen and need not
spurious_wakeup ==
    /\ pc = "imp"
    /\ dp.wpc = "blocked"
    /\ dp.waiting
    /\ dp' = [dp EXCEPT !.waiting = FALSE, !.woken = "spurious"]
    /\ udp_unchanged

\* next_mbuf: if (!run) return nullptr; return mbq.pop(); and in work
\* if (mb == nullptr) break; the buffer is popped whatever run is
next_mbuf_return_deaf ==
    /\ pc = "imp"
    /\ dp.wpc = "check"
    /\ dp' = IF Len(dp.mbq) = 0
             THEN [dp EXCEPT !.mbqmtx = << >>, !.wpc = "exited",
                             !.observed_stop = TRUE,
                             !.collected_then = Len(dp.collected)]
             ELSE [dp EXCEPT !.mbqmtx = << >>, !.wpc = "collect",
                             !.mb = Head(dp.mbq), !.mbq = Tail(dp.mbq),
                             !.observed_stop = @ \/ ~dp.run,
                             !.collected_then = IF dp.run THEN @
                                                ELSE Len(dp.collected),
                             !.unlocked_access = @ \/ dp.mbqmtx # << "worker" >>]
    /\ udp_unchanged

\* next_mbuf: if (!run) return nullptr; return mbq.pop(); and in work
\* if (mb == nullptr) break;
next_mbuf_return ==
    /\ pc = "imp"
    /\ dp.wpc = "check"
    /\ dp' = IF ~dp.run
             THEN [dp EXCEPT !.mbqmtx = << >>, !.wpc = "exited",
                             !.observed_stop = TRUE,
                             !.collected_then = Len(dp.collected)]
             ELSE IF Len(dp.mbq) = 0
             THEN [dp EXCEPT !.wpc = "pop_empty"]
             ELSE [dp EXCEPT !.mbqmtx = << >>, !.wpc = "collect",
                             !.mb = Head(dp.mbq), !.mbq = Tail(dp.mbq),
                             !.unlocked_access = @ \/ dp.mbqmtx # << "worker" >>]
    /\ udp_unchanged

\* work: worker_ectx = collect(*mb)
work_collect ==
    /\ pc = "imp"
    /\ dp.wpc = "collect"
    /\ dp' = [dp EXCEPT !.collected = Append(@, dp.mb), !.mb = NoMbuf,
                        !.wpc = "work"]
    /\ udp_unchanged

\* enqueue_mbuf: std::unique_lock<std::mutex> lock(mbqmtx)
enqueue_mbuf_lock(p) ==
    /\ pc = "imp"
    /\ dp.ppc[p] = "idle"
    /\ dp.sent[p] < MaxMbufs
    /\ dp.mbqmtx = << >>
    /\ dp' = [dp EXCEPT !.mbqmtx = << "producer", p >>, !.ppc[p] = "push"]
    /\ udp_unchanged

\* enqueue_mbuf: mbq.push(mb)
enqueue_mbuf_push(p) ==
    /\ pc = "imp"
    /\ dp.ppc[p] = "push"
    /\ dp' = [dp EXCEPT
                !.mbq = Append(@, << p, dp.sent[p] + 1 >>),
                !.enqueued = Append(@, << p, dp.sent[p] + 1 >>),
                !.sent[p] = @ + 1,
                !.ppc[p] = "notify",
                !.unlocked_access = @ \/ dp.mbqmtx # << "producer", p >>]
    /\ udp_unchanged

\* enqueue_mbuf: mbqcv.notify_all() and the return, which unlocks
enqueue_mbuf_notify(p) ==
    /\ pc = "imp"
    /\ dp.ppc[p] = "notify"
    /\ dp' = [dp EXCEPT !.waiting = FALSE,
                        !.woken = IF dp.waiting THEN "enqueue" ELSE @,
                        !.mbqmtx = << >>, !.ppc[p] = "idle"]
    /\ udp_unchanged

\* stop: run = false
stop_run ==
    /\ pc = "imp"
    /\ dp.spc = "idle"
    /\ dp' = [dp EXCEPT !.run = FALSE, !.spc = "notify"]
    /\ udp_unchanged

\* stop: mbqcv.notify_all()
stop_notify ==
    /\ pc = "imp"
    /\ dp.spc = "notify"
    /\ dp' = [dp EXCEPT !.waiting = FALSE,
                        !.woken = IF dp.waiting THEN "stop" ELSE @,
                        !.spc = "join"]
    /\ udp_unchanged

\* stop: worker.join()
stop_join ==
    /\ pc = "imp"
    /\ dp.spc = "join"
    /\ dp.wpc = "exited"
    /\ dp' = [dp EXCEPT !.spc = "returned"]
    /\ udp_unchanged

\* the steps of the worker thread
WorkerNext ==
    \/ work_test
    \/ next_mbuf_lock
    \/ next_mbuf_test
    \/ next_mbuf_wait
    \/ next_mbuf_wake
    \/ next_mbuf_return
    \/ work_collect

\* the steps of the thread that calls stop
StopNext ==
    \/ stop_run
    \/ stop_notify
    \/ stop_join

\* the steps of a producer thread inside enqueue_mbuf
EnqueueNext(p) ==
    \/ enqueue_mbuf_push(p)
    \/ enqueue_mbuf_notify(p)

ImpNext ==
    \/ WorkerNext
    \/ StopNext
    \/ \E p \in Producers : enqueue_mbuf_lock(p)
    \/ \E p \in Producers : EnqueueNext(p)
    \/ spurious_wakeup

ImpSpec == ImpInit /\ [][ImpNext]_vars

\* fair scheduling: a thread that can take a step takes one; whether
\* enqueue_mbuf or stop is called at all is up to the callers, and a
\* spurious wake-up is never owed
ImpFairSpec ==
    /\ ImpSpec
    /\ WF_vars(WorkerNext)
    /\ WF_vars(stop_notify \/ stop_join)
    /\ \A p \in Producers : WF_vars(EnqueueNext(p))

(***************************************************************************)
(* What the callbacks of a message must be, from what the exporter sent.   *)
(***************************************************************************)
Range(f) == { f[i] : i \in DOMAIN f }

IsPrefix(s, t) == Len(s) <= Len(t) /\ s = SubSeq(t, 1, Len(s))

SetCalls(sets) ==
    Flatten([i \in 1..Len(sets) |->
               << "start_" \o sets[i].kind \o "_set",
                  "end_" \o sets[i].kind \o "_set" >>])

ExpectedCalls(m) == << "start_message" >> \o SetCalls(m.sets)
                    \o << "end_message" >>

SetCallbacks ==
    { c \in Range(calls) : c \notin {"start_message", "end_message"} }

\* the parser is between two callbacks, or parse has returned
Returned == pc \in {"read", "done", "fatal"}

\* C1: for a valid message the callbacks parse delivers are, in this order,
\* start_message, one start_*_set/end_*_set pair per set of the message in
\* wire order and of the set's kind, each pair closed before the next
\* opens, and end_message: at every moment the callbacks delivered so far
\* are a prefix of that sequence, between two sets every pair is closed,
\* and once the message is done they are the whole sequence.  (A callback
\* that ends the process in the handler leaves a proper prefix.)
C1_OnePairPerSet ==
    curmsg.breaks = "none" =>
        /\ IsPrefix(calls, ExpectedCalls(curmsg))
        /\ pc = "sets" => Len(calls) % 2 = 1
        /\ Returned => calls = ExpectedCalls(curmsg)

C1_Witness ==
    /\ pc = "read"
    /\ curmsg.breaks = "none"
    /\ Len(curmsg.sets) = 3
    /\ calls = << "start_message",
                  "start_template_set", "end_template_set",
                  "start_template_set", "end_template_set",
                  "start_data_set", "end_data_set",
                  "end_message" >>

FramingBreaks == {"short_header", "short_body", "version", "long_set"}

FramingError(breaks) ==
    IF breaks = "version" THEN "message_version_number" ELSE breaks

\* C2: a message with a short header, a short body, a version other than
\* 10 or a set that ends behind the message end makes parse report exactly
\* that fatal error and return: nothing can happen after it, no
\* end_message and no end_session is delivered, and for a long set the
\* callbacks delivered are start_message and the pairs of the sets before
\* it, none for the long set itself.
C2_FramingErrorsAreFatal ==
    /\ curmsg.breaks \in FramingBreaks /\ pc # "sets" =>
         /\ pc = "fatal"
         /\ errs = << FramingError(curmsg.breaks) >>
    /\ errs # <<>> =>
         /\ pc = "fatal"
         /\ Len(errs) = 1
         /\ ~ENABLED Next
         /\ "end_session" \notin Range(session)
         /\ errs[1] # "read_error" => "end_message" \notin Range(calls)
    /\ errs = << "long_set" >> =>
         calls = << "start_message" >>
                 \o SetCalls(SubSeq(curmsg.sets, 1, Len(curmsg.sets) - 1))

C2_Witness ==
    /\ pc = "fatal"
    /\ errs = << "long_set" >>
    /\ calls = << "start_message", "start_template_set",
                  "end_template_set" >>

\* the header of the message in the buffer is one parse must refuse
BadHeader ==
    /\ nreads >= 1
    /\ Len(message) >= kIpfixMessageHeaderLen
    /\ \/ decode_uint16(message, 0) # kIpfixVersion
       \/ decode_uint16(message, 2) < kIpfixMinMessageLen

\* C3: when the 16 octets of a header have a version other than 10 or a
\* length below 16, parse reports a fatal error and returns, having read
\* nothing but the header and delivered no set callback.
C3_BadHeaderIsFatal ==
    BadHeader =>
        /\ pc = "fatal"
        /\ Len(errs) = 1
        /\ nreads = 1
        /\ SetCallbacks = {}

\* C4: a read of zero octets at the top of the message loop is the clean
\* end of the stream: no error is reported and end_session is delivered,
\* once, after the end_message of the last message; and end_session is
\* delivered in no other case.
C4_CleanEndOfStream ==
    /\ nreads = 1 /\ nbytes = 0 =>
         /\ pc = "done"
         /\ errs = <<>>
         /\ session = << "start_session", "end_session" >>
         /\ calls = <<>> \/ calls[Len(calls)] = "end_message"
    /\ "end_session" \in Range(session) =>
         /\ pc = "done"
         /\ nreads = 1 /\ nbytes = 0

C4_Witness ==
    /\ pc = "done"
    /\ session = << "start_session", "end_session" >>
    /\ calls # <<>>
    /\ calls[Len(calls)] = "end_message"

(***************************************************************************)
(* The template registry and the data sets.                                *)
(***************************************************************************)
\* the set whose callbacks were delivered last
LastSet == curmsg.sets[(Len(calls) - 1) \div 2]

AfterSet == pc = "sets" /\ Len(calls) >= 3 /\ d.fault = "none"

Registered == { d.wire_templates[k] : k \in DOMAIN d.wire_templates }

\* C5: a step that leaves a key of the registry with a template of the
\* same contents as before (nothing was announced for the key, or a
\* template equal to the registered one) leaves the key with the same,
\* older object, that object untouched, and its matched-template entry as
\* it was.
C5_DuplicateIsNoOp ==
    [][\A k \in DOMAIN d.wire_templates :
         LET old == d.wire_templates[k]
             new == d'.wire_templates[k]
         IN  d'.heap[new].ies = d.heap[old].ies =>
               /\ new = old
               /\ d'.heap[old] = d.heap[old]
               /\ old \in DOMAIN d.matched_templates =>
                    /\ old \in DOMAIN d'.matched_templates
                    /\ d'.matched_templates[old] = d.matched_templates[old]
      ]_vars

\* a template equal to the registered one was announced: its object is
\* left over beside the registered one, whose cache entry is there
C5_Witness ==
    /\ d.current_wire_template = NULL
    /\ \E a \in 1..Len(d.heap) : \E k \in DOMAIN d.wire_templates :
         /\ d.heap[a].live
         /\ a \notin Registered
         /\ d.heap[a].ies = d.heap[d.wire_templates[k]].ies
         /\ d.wire_templates[k] \in DOMAIN d.matched_templates

\* C6: after a well-formed template record the registry maps its (domain,
\* id) to a live template with the announced fields; a step that changes
\* the object of a key deletes the old object and leaves it no
\* matched-template entry; every matched-template entry belongs to a live
\* template and is the placement a fresh match chooses for it; and a data
\* set is decoded with the template registered for its id and the
\* placement a fresh match chooses for that template.
C6_OverwriteReplaces ==
    /\ [](AfterSet /\ LastSet.kind # "data" /\ LastSet.ok =>
            LET a == find_wire_template(d, LastSet.tid)
            IN  /\ a # NULL
                /\ d.heap[a].live
                /\ d.heap[a].ies = LastSet.ies)
    /\ [](\A a \in DOMAIN d.matched_templates :
            /\ d.heap[a].live
            /\ first_match(d, d.heap[a].ies, 1) # 0
            /\ d.matched_templates[a] =
                 d.placement_templates[first_match(d, d.heap[a].ies, 1)])
    /\ [](d.plan.wire # NULL =>
            /\ d.plan.wire = find_wire_template(d, d.data_id)
            /\ d.heap[d.plan.wire].live
            /\ d.plan.ies = d.heap[d.plan.wire].ies
            /\ d.plan.placement =
                 d.placement_templates[first_match(d, d.plan.ies, 1)])
    /\ [][\A k \in DOMAIN d.wire_templates :
            LET old == d.wire_templates[k]
                new == d'.wire_templates[k]
            IN  new # old =>
                  /\ ~d'.heap[old].live
                  /\ old \notin DOMAIN d'.matched_templates
                  /\ d'.heap[new].live
                  /\ d'.heap[new].ies # d.heap[old].ies
         ]_vars

\* a template was overwritten in this message and the data set behind it
\* was decoded with the new fields
C6_Witness ==
    /\ AfterSet
    /\ Len(curmsg.sets) = 3
    /\ LastSet.kind = "data"
    /\ d.use_matched_template_cache
    /\ \E a \in 1..Len(d.heap) : ~d.heap[a].live
    /\ d.plan.ies = << IE_A, IE_B >>
    /\ Len(d.pcalls) > 0

TemplateIds == {256, 257}

\* C7: (domain, id) pairs with the same registry key are equal; while the
\* sets of a message are handled the handler's observation domain is the
\* one of that message's header; and a data set finds a wire template
\* exactly if a template with its id was installed under the domain of
\* its message.
C7_DomainScoped ==
    /\ \A a, b \in Domains : \A t, u \in TemplateIds :
         make_template_key([d EXCEPT !.observation_domain = a], t)
           = make_template_key([d EXCEPT !.observation_domain = b], u)
         => a = b /\ t = u
    /\ pc = "sets" => d.observation_domain = curmsg.domain
    /\ d.data_id # 0 /\ d.fault = "none" =>
         (d.wire_used # NULL
            <=> << curmsg.domain, d.data_id >> \in announced)

\* a template id known in one domain is looked up, and not found, in the
\* other
C7_Witness ==
    /\ AfterSet
    /\ LastSet.kind = "data"
    /\ d.wire_used = NULL
    /\ curmsg.domain = 1
    /\ << 0, d.data_id >> \in announced
    /\ << 1, d.data_id >> \notin announced

\* the data set handled last had no wire template
NoWireTemplate == d.data_id # 0 /\ d.wire_used = NULL

\* C8: without an unhandled_data_set handler a data set without wire
\* template is skipped: no error, no placement callback, nothing written,
\* its key remembered in unmatched_template_ids; and the warnings issued
\* are one for each remembered key, none twice.
C8_SkippedWarnedOnce ==
    /\ ~d.unhandled_data_set_handler /\ NoWireTemplate =>
         /\ d.fault = "none"
         /\ d.ret = "ok"
         /\ d.pcalls = <<>>
         /\ d.writes = 0
         /\ d.handler_calls = 0
         /\ make_template_key(d, d.data_id) \in d.unmatched_template_ids
    /\ Range(d.warnings) = d.unmatched_template_ids
    /\ \A i, j \in DOMAIN d.warnings :
         d.warnings[i] = d.warnings[j] => i = j

\* two data sets of one message without wire template, one warning
C8_Witness ==
    /\ AfterSet
    /\ ~d.unhandled_data_set_handler
    /\ NoWireTemplate
    /\ calls = << "start_message", "start_data_set", "end_data_set",
                  "start_data_set", "end_data_set" >>
    /\ curmsg.sets[1].tid = curmsg.sets[2].tid
    /\ Len(d.warnings) = 1

\* C9: the handler is invoked at most once for a data set; when it returns
\* again the wire template is looked up a second time and no more; a
\* template the handler installed is then the one the set goes on with,
\* and is the one of the decode plan when a placement matches; without
\* one the set is skipped like any set without wire template, and no error
\* is returned.
C9_AgainRetriesOnce ==
    /\ d.handler_calls <= 1
    /\ d.lookups <= 2
    /\ d.handler_ret = "again" /\ d.fault = "none" =>
         /\ d.lookups = 2
         /\ d.handler_calls = 1
         /\ d.ret = "ok"
         /\ IF d.handler_install # <<>>
            THEN /\ d.wire_used # NULL
                 /\ d.wire_used = find_wire_template(d, d.data_id)
                 /\ d.heap[d.wire_used].ies = d.handler_install
                 /\ first_match(d, d.handler_install, 1) # 0 =>
                      /\ d.plan.wire = d.wire_used
                      /\ Len(d.pcalls) > 0
            ELSE /\ d.wire_used = NULL
                 /\ d.pcalls = <<>>
                 /\ d.writes = 0
                 /\ make_template_key(d, d.data_id)
                      \in d.unmatched_template_ids

C9_Witness ==
    /\ AfterSet
    /\ d.handler_ret = "again"
    /\ d.handler_install # <<>>
    /\ d.lookups = 2
    /\ d.plan.wire = d.wire_used
    /\ Len(d.pcalls) > 0

\* C10: when the handler returns anything but again for a data set
\* without wire template, the set is ignored: no placement callback,
\* nothing written, no assertion failed, no error returned.
C10_NoIndicationIgnores ==
    d.handler_calls = 1 /\ d.handler_ret # "again" =>
        /\ d.fault = "none"
        /\ d.ret = "ok"
        /\ d.pcalls = <<>>
        /\ d.writes = 0

(***************************************************************************)
(* Placement matching and the records of a data set.                       *)
(***************************************************************************)
\* the registered placement templates, by position, that match ies
Matching(ies) ==
    { i \in 1..Len(d.placement_templates) :
        is_match(Placement(d.placement_templates[i]), ies) > 0 }

\* C11: a data set that has a wire template is decoded with the placement
\* template registered earliest among those with a positive is_match count
\* against the wire template; when no registered placement template has a
\* positive count the set is skipped: no placement callback, nothing
\* written, no error.
C11_FirstMatchInOrder ==
    d.data_id # 0 /\ d.wire_used # NULL =>
        LET M == Matching(d.heap[d.wire_used].ies)
        IN  IF M = {}
            THEN /\ d.plan = NoPlan
                 /\ d.pcalls = <<>>
                 /\ d.writes = 0
                 /\ d.ret = "ok"
                 /\ d.fault = "none"
            ELSE /\ d.plan.wire = d.wire_used
                 /\ d.plan.placement =
                      d.placement_templates[
                          CHOOSE i \in M : \A j \in M : i <= j]

\* two placement templates match, the one registered first is taken
C11_Witness ==
    /\ AfterSet
    /\ d.wire_used # NULL
    /\ d.placement_templates = << 2, 1 >>
    /\ Cardinality(Matching(d.heap[d.wire_used].ies)) = 2
    /\ d.plan.placement = 2
    /\ Len(d.pcalls) > 0

\* the octets of a record of fixed-length fields
RECURSIVE RecordLen(_)
RecordLen(ies) ==
    IF ies = <<>> THEN 0 ELSE Head(ies).len + RecordLen(Tail(ies))

PlacementPairs(p, n) ==
    Flatten([k \in 1..n |->
               << <<"start_placement", p>>, <<"end_placement", p>> >>])

\* every write lies behind a start_placement that no end_placement has
\* closed
Bracketed(events) ==
    \A i \in DOMAIN events :
        events[i][1] = "write" =>
            \E j \in 1..(i - 1) :
                /\ events[j][1] = "start_placement"
                /\ \A k \in (j + 1)..i : events[k][1] = "write"

HostValue(bytes, big_endian) ==
    IF big_endian THEN BigEndianValue(bytes)
    ELSE BigEndianValue(Reverse(bytes))

IntegerTypes == { "unsigned8", "unsigned32", "signed32" }

\* execute has run to its end on the record under test
Executed == dp.stage = "done" /\ dp.kind = "execute" /\ dp.plan # <<>>

\* the elements of the template under test that the placement names
Placed == { i \in DOMAIN dp.wire_template :
              IEKey(dp.wire_template[i]) \in dp.placement }

\* C13: after execute has transferred an integer element whose wire length
\* is at most its native size, the destination has the native size and the
\* host reads from it the unsigned big-endian value of the wire octets,
\* the octets above them zero, on hosts of either byte order.
C13_ZeroExtended ==
    Executed /\ dp.fault = "none" =>
        \A i \in Placed :
            LET ie == dp.wire_template[i]
            IN  IETypeOf(ie) \in IntegerTypes
                /\ ie.len <= NativeSize(IETypeOf(ie)) =>
                    /\ dp.dst[IEKey(ie)].written
                    /\ Len(dp.dst[IEKey(ie)].value) = NativeSize(IETypeOf(ie))
                    /\ HostValue(dp.dst[IEKey(ie)].value, dp.big_endian)
                         = BigEndianValue(dp.fields[i])

\* a u32 of wire length 2 carrying 0x1234 has been transferred on a
\* little-endian host
C13_Witness ==
    /\ Executed /\ dp.fault = "none"
    /\ ~dp.big_endian
    /\ dp.wire_template = << IE_U32_2 >>
    /\ dp.fields = << << 18, 52 >> >>
    /\ dp.placement = { IEKey(IE_U32_2) }
    /\ dp.dst[IEKey(IE_U32_2)].value = << 52, 18, 0, 0 >>

\* the field of the record under test that holds a boolean, 0 if none
BoolField ==
    IF \E i \in DOMAIN dp.wire_template : dp.wire_template[i] = IE_BOOL
    THEN CHOOSE i \in DOMAIN dp.wire_template : dp.wire_template[i] = IE_BOOL
    ELSE 0

\* the octets of the record under test before field i
RECURSIVE OffsetOf(_)
OffsetOf(i) == IF i <= 1 THEN 0 ELSE OffsetOf(i - 1) + Len(dp.fields[i - 1])

\* execute has run on a record whose boolean is placed and lies within
\* the buffer together with everything before it
BooleanReached ==
    /\ Executed
    /\ BoolField \in Placed
    /\ OffsetOf(BoolField) + 1 <= dp.length

\* C14: a placed boolean with wire octet 1 is stored as true and one with
\* wire octet 2 as false, and execute goes on one octet further; with any
\* other wire octet execute ends in a format error and the destinations of
\* the boolean and of every later element are as they were before.
C14_BooleanOrFormatError ==
    BooleanReached =>
        LET b == dp.fields[BoolField][1]
            key == IEKey(IE_BOOL)
        IN  /\ b = 1 => dp.dst[key] = [written |-> TRUE, value |-> << 1 >>]
            /\ b = 2 => dp.dst[key] = [written |-> TRUE, value |-> << 0 >>]
            /\ b \in {1, 2} /\ dp.fault = "none" =>
                 dp.consumed = Len(Flatten(dp.fields))
            /\ b \notin {1, 2} =>
                 /\ dp.fault = "throw"
                 /\ dp.consumed = OffsetOf(BoolField)
                 /\ \A i \in Placed :
                      i >= BoolField =>
                        ~dp.dst[IEKey(dp.wire_template[i])].written

\* a boolean with wire octet 3 in front of a placed u32 has ended execute
\* behind a transferred first element
C14_Witness ==
    /\ BooleanReached
    /\ dp.wire_template = << IE_B, IE_BOOL, IE_U32_2 >>
    /\ dp.placement = { IEKey(IE_B), IEKey(IE_BOOL), IEKey(IE_U32_2) }
    /\ dp.fields[2] = << 3 >>
    /\ dp.fault = "throw"
    /\ dp.dst[IEKey(IE_B)].value = << 7 >>
    /\ ~dp.dst[IEKey(IE_U32_2)].written

\* decode_varlen_length has run on a length encoding whose content lies
\* within the buffer
VarlenDecoded ==
    dp.stage = "done" /\ dp.kind = "varlen" /\ dp.form + dp.l <= dp.length

\* C15: decode_varlen_length returns the first octet and consumes one
\* octet when that octet is below 255, and otherwise consumes three octets
\* and returns the second and third as a big-endian number; the three-octet
\* form of a length, below 255 or not, is accepted and gives that length.
C15_VarlenLength ==
    VarlenDecoded =>
        /\ dp.out.fault = "none"
        /\ dp.buf[1] < UCHAR_MAX => dp.out.len = dp.buf[1] /\ dp.out.cur = 1
        /\ dp.buf[1] >= UCHAR_MAX =>
             /\ dp.out.len = dp.buf[2] * 256 + dp.buf[3]
             /\ dp.out.cur = 3
        /\ dp.out.len = dp.l

\* the length 254 has been decoded from its three-octet form
C15_Witness ==
    /\ VarlenDecoded
    /\ dp.buf = << 255, 0, 254 >>
    /\ dp.out = [len |-> 254, cur |-> 3, fault |-> "none"]

\* the field of the record under test that has a variable length, 0 if none
VarField ==
    IF \E i \in DOMAIN dp.wire_template : dp.wire_template[i] = IE_VAR
    THEN CHOOSE i \in DOMAIN dp.wire_template : dp.wire_template[i] = IE_VAR
    ELSE 0

\* the length octets of the variable-length field of the record under test
PrefixLen == IF dp.fields[VarField][1] < UCHAR_MAX THEN 1 ELSE 3

\* execute has run on a record whose variable-length field ends behind the
\* end of the buffer while everything before the field lies within it
VarlenCrosses ==
    /\ Executed
    /\ VarField # 0
    /\ OffsetOf(VarField) <= dp.length
    /\ OffsetOf(VarField) + Len(dp.fields[VarField]) > dp.length

\* C16: when the length octets or the content of a variable-length field
\* end behind the end of the buffer, execute ends in a format error with
\* the cursor in front of the content, and a destination of the field is
\* not written.
C16_VarlenBeyondBuffer ==
    VarlenCrosses =>
        /\ dp.fault = "throw"
        /\ dp.consumed <= OffsetOf(VarField) + PrefixLen
        /\ IEKey(IE_VAR) \in dp.placement => ~dp.dst[IEKey(IE_VAR)].written

\* the same when at least one octet of the field lies within the buffer
C16_VarlenBeyondBuffer_partly ==
    VarlenCrosses /\ OffsetOf(VarField) < dp.length =>
        /\ dp.fault = "throw"
        /\ dp.consumed <= OffsetOf(VarField) + PrefixLen
        /\ IEKey(IE_VAR) \in dp.placement => ~dp.dst[IEKey(IE_VAR)].written

\* execute has run to its end on a whole record, the buffer ending behind
\* the record or behind the first octet of the next one
WellFormed ==
    /\ Executed
    /\ Len(Flatten(dp.fields)) <= dp.length
    /\ \A i \in DOMAIN dp.wire_template :
         dp.wire_template[i] = IE_BOOL => dp.fields[i][1] \in {1, 2}

\* the content of a field as sent: what follows the length octets of a
\* variable-length field, the octets of any other
Content(i) ==
    IF dp.wire_template[i].len # kIpfixVarlen THEN dp.fields[i]
    ELSE SubSeq(dp.fields[i],
                (IF dp.fields[i][1] < UCHAR_MAX THEN 2 ELSE 4),
                Len(dp.fields[i]))

Truncated ==
    /\ Executed
    /\ Len(Flatten(dp.fields)) > dp.length
    /\ \A i \in DOMAIN dp.wire_template :
         dp.wire_template[i] = IE_BOOL => dp.fields[i][1] \in {1, 2}

\* C18: when the record runs past the end of the buffer, whatever the
\* decision that meets the end, execute ends in a format error and not in
\* a failed assertion; and when execute returns, the count it returns is
\* at most the length of the buffer.
C18_FormatErrorNotAssertion ==
    /\ Truncated => dp.fault = "throw"
    /\ Executed /\ dp.fault = "none" => dp.consumed <= dp.length

\* the part of C18 that holds: execute never returns more than length
C18_ConsumedWithinLength ==
    Executed /\ dp.fault = "none" => dp.consumed <= dp.length

(***************************************************************************)
(* Template records that end behind their set, and marks of partial        *)
(* matches.                                                                *)
(***************************************************************************)
\* the message at hand holds the template set whose record announces two
\* field specifiers and has room for one
TemplateCutShort == curmsg.breaks = "template"

\* C19: a template record whose field specifiers run past the end of the
\* template set fails no assertion, in its set or behind it; once the set
\* is done the handler has no template under construction; and no
\* template is installed under the id of the record.
C19_TemplateErrorRecoverable ==
    TemplateCutShort =>
        /\ d.fault = "none"
        /\ pc = "sets" /\ Len(calls) >= 3 => d.current_wire_template = NULL
        /\ make_template_key(d, 258) \notin DOMAIN d.wire_templates

\* the part of C19 that holds: nothing is installed for the record
C19_NothingInstalled ==
    TemplateCutShort =>
        make_template_key(d, 258) \notin DOMAIN d.wire_templates

\* the keys whose template is replaced by a different one in this step
Overwritten ==
    { k \in DOMAIN d.wire_templates :
        /\ k \in DOMAIN d'.wire_templates
        /\ d'.wire_templates[k] # d.wire_templates[k] }

\* C20: a step that overwrites the template of a key (domain, id) leaves
\* that key out of incomplete_template_ids, in every observation domain.
C20_OverwriteClearsMark ==
    [][\A k \in Overwritten : k \notin d'.incomplete_template_ids]_vars

\* the same in observation domain 0, where key and template id are equal
C20_OverwriteClearsMark_domain0 ==
    [][\A k \in Overwritten : k < 65536 => k \notin d'.incomplete_template_ids]_vars

(***************************************************************************)
(* IETemplate and MatchTemplate.                                           *)
(***************************************************************************)
\* the sum over the elements of 1 for a variable-length one and of the
\* length for any other
RECURSIVE MinLenOf(_)
MinLenOf(ies) ==
    IF ies = <<>> THEN 0
    ELSE (IF Head(ies).len = kIpfixVarlen THEN 1 ELSE Head(ies).len)
         + MinLenOf(Tail(ies))

\* C21: a template built by add has as minlen the sum over its elements
\* of 1 for an element of variable length and of the encoded length for
\* any other; after clear the template has no elements and minlen 0.
C21_MinlenIsSum ==
    dp.stage \in { "template", "compared", "announced" } =>
        /\ dp.l.minlen = MinLenOf(dp.l.ies)
        /\ dp.r.minlen = MinLenOf(dp.r.ies)
        /\ dp.last = "clear" => dp.l = [ies |-> <<>>, minlen |-> 0]

\* a template of a variable-length and a fixed-length element has been
\* built, and another one cleared
C21_Witness ==
    /\ dp.stage = "template"
    /\ dp.r.ies = << IE_VAR, IE_A >>
    /\ dp.r.minlen = 5
    /\ dp.last = "clear"
    /\ dp.class = "MatchTemplate"

(***************************************************************************)
(* The record loop of start_data_set.                                      *)
(***************************************************************************)
\* start_data_set has run on the data set under test
DataSetDecoded == dp.stage = "done" /\ dp.kind = "dataset"

\* the whole records the data set under test holds
RecordCount == Len(dp.fields) \div Len(dp.wire_template)

\* the collector's start_placement and end_placement return no error
CallbacksSucceed == d.collector = NoCallbackError

\* C22: start_data_set decodes a record only while the octets left are at
\* least the minlen of the wire template, a variable-length element
\* counting one octet: octets behind the last record that are fewer than
\* that are padding, and the placement callbacks are those of the records
\* (for a collector whose callbacks return no error).
C22_PaddingBelowMinlen ==
    DataSetDecoded /\ CallbacksSucceed
    /\ Len(dp.pad) < MinLenOf(dp.wire_template) =>
        /\ d.fault = "none"
        /\ d.pcalls = PlacementPairs(d.plan.placement, RecordCount)

\* the same for padding shorter than the fixed-length elements together
C22_PaddingBelowFixedLength ==
    DataSetDecoded /\ CallbacksSucceed
    /\ Len(dp.pad) < wire_template_min_length(dp.wire_template) =>
        /\ d.fault = "none"
        /\ d.pcalls = PlacementPairs(d.plan.placement, RecordCount)

(***************************************************************************)
(* The decisions of a compiled plan                                        *)
(***************************************************************************)
\* a plan was compiled for the template and placement under test
Compiled ==
    /\ dp.stage \in { "planned", "done" }
    /\ dp.kind \in { "execute", "plan" }
    /\ dp.plan # <<>>

\* the decisions of the constructor before it coalesces them
Uncoalesced == dp.decisions

IsSkip(ds, i) == ds[i].type = "skip_fixlen"

\* a run of skip_fixlen decisions starts at i
RunStart(ds, i) == IsSkip(ds, i) /\ (i = 1 \/ ~IsSkip(ds, i - 1))

\* the sum of the lengths of the skip_fixlen decisions from i on, up to
\* the first decision of another kind
RECURSIVE RunLength(_, _)
RunLength(ds, i) ==
    IF i > Len(ds) \/ ~IsSkip(ds, i) THEN 0
    ELSE ds[i].length + RunLength(ds, i + 1)

\* ds with every maximal run of skip_fixlen decisions as one decision
RECURSIVE RunsJoined(_, _)
RunsJoined(ds, i) ==
    IF i > Len(ds) THEN <<>>
    ELSE IF RunStart(ds, i)
    THEN << [ds[i] EXCEPT !.length = RunLength(ds, i)] >>
         \o RunsJoined(ds, i + 1)
    ELSE IF IsSkip(ds, i) THEN RunsJoined(ds, i + 1)
    ELSE << ds[i] >> \o RunsJoined(ds, i + 1)

\* the lengths of the decisions that have a fixed length, together
RECURSIVE FixedTotal(_)
FixedTotal(ds) ==
    IF ds = <<>> THEN 0
    ELSE (IF Head(ds).type \in { "skip_varlen", "transfer_varlen" } THEN 0
          ELSE Head(ds).length) + FixedTotal(Tail(ds))

\* C23: in a compiled plan no two adjacent decisions are both skip_fixlen;
\* the plan is the decisions of the wire template with each maximal run of
\* skip_fixlen decisions as one skip_fixlen of the sum of the run, the other
\* decisions in their order and unchanged; the fixed lengths of the plan
\* add up to those of the decisions.
C23_SkipsCoalesced ==
    Compiled =>
        /\ \A i \in 1..(Len(dp.plan) - 1) :
             ~(IsSkip(dp.plan, i) /\ IsSkip(dp.plan, i + 1))
        /\ dp.plan = RunsJoined(Uncoalesced, 1)
        /\ FixedTotal(dp.plan) = FixedTotal(Uncoalesced)

\* the same for wire templates whose skipped lengths fit a uint16_t
C23_SkipsCoalesced_below65536 ==
    Compiled /\ FixedTotal(Uncoalesced) <= USHRT_MAX =>
        /\ \A i \in 1..(Len(dp.plan) - 1) :
             ~(IsSkip(dp.plan, i) /\ IsSkip(dp.plan, i + 1))
        /\ dp.plan = RunsJoined(Uncoalesced, 1)
        /\ FixedTotal(dp.plan) = FixedTotal(Uncoalesced)

\* skips of 2, 4 and 8 octets have become one of 14
C23_Witness ==
    /\ Compiled
    /\ \E i \in 1..(Len(Uncoalesced) - 2) :
         /\ Uncoalesced[i].type = "skip_fixlen" /\ Uncoalesced[i].length = 2
         /\ Uncoalesced[i + 1].type = "skip_fixlen"
         /\ Uncoalesced[i + 1].length = 4
         /\ Uncoalesced[i + 2].type = "skip_fixlen"
         /\ Uncoalesced[i + 2].length = 8
    /\ dp.plan = << [type |-> "skip_fixlen", length |-> 14,
                     destination_size |-> 0, p |-> <<>>, fault |-> "none"] >>

TransferTypes ==
    { "transfer_fixlen", "transfer_fixlen_endianness", "transfer_boolean",
      "transfer_fixlen_octets", "transfer_float_into_double",
      "transfer_float_into_double_endianness", "transfer_varlen" }

\* C24: before the coalescing a compiled plan has one decision for each
\* element of the wire template, in the order of the wire template: an
\* element the placement has no entry for (by enterprise number and element
\* id, whatever its length) is skipped, by skip_varlen when its length is
\* variable and by skip_fixlen of its length otherwise, and an element the
\* placement has an entry for is transferred to the destination of the entry.
C24_OneDecisionPerField ==
    Compiled =>
        /\ Len(dp.decisions) = Len(dp.wire_template)
        /\ \A i \in 1..Len(dp.wire_template) :
             IF IEKey(dp.wire_template[i]) \in dp.placement
             THEN /\ dp.decisions[i].type \in TransferTypes
                  /\ dp.decisions[i].p = IEKey(dp.wire_template[i])
             ELSE IF dp.wire_template[i].len = kIpfixVarlen
             THEN dp.decisions[i].type = "skip_varlen"
             ELSE /\ dp.decisions[i].type = "skip_fixlen"
                  /\ dp.decisions[i].length = dp.wire_template[i].len

\* a plan that skips a fixed and a variable length and transfers an
\* element sent in a reduced length
C24_Witness ==
    /\ Compiled
    /\ \E i, j, k \in 1..Len(dp.decisions) :
         /\ dp.decisions[i].type = "skip_fixlen"
         /\ dp.decisions[j].type = "skip_varlen"
         /\ dp.decisions[k].type \in TransferTypes
         /\ dp.wire_template[k].len < NativeSize(IETypeOf(dp.wire_template[k]))

\* the types whose fixed-length transfer follows the byte order of the host
EndianTypes ==
    { "unsigned16", "unsigned32", "unsigned64", "signed16", "signed32",
      "signed64", "dateTimeSeconds", "dateTimeMilliseconds",
      "dateTimeMicroseconds", "dateTimeNanoseconds", "float32",
      "ipv4Address" }

\* the decision type for a type and a wire length; plain is the types
\* of one octet that are transferred without regard to the byte order
KindOf(type, len, big_endian, plain) ==
    LET fixlen == IF big_endian THEN "transfer_fixlen"
                  ELSE "transfer_fixlen_endianness"
    IN  CASE type \in plain -> "transfer_fixlen"
          [] type \in { "macAddress", "ipv6Address" } -> "transfer_fixlen"
          [] type = "boolean" -> "transfer_boolean"
          [] type = "float64" ->
               IF len = 4
               THEN IF big_endian THEN "transfer_float_into_double"
                    ELSE "transfer_float_into_double_endianness"
               ELSE fixlen
          [] type \in { "octetArray", "string" } ->
               IF len = kIpfixVarlen THEN "transfer_varlen"
               ELSE "transfer_fixlen_octets"
          [] OTHER -> fixlen

\* every transfer decision of the plan has the type KindOf gives
KindsAre(plain) ==
    \A i \in 1..Len(dp.decisions) :
      IEKey(dp.wire_template[i]) \in dp.placement =>
        dp.decisions[i].type =
          KindOf(IETypeOf(dp.wire_template[i]), dp.wire_template[i].len,
                 dp.big_endian, plain)

\* the types of the elements of the compiled plans that have a placement
PlacedTypes ==
    { IETypeOf(dp.wire_template[i]) :
        i \in { j \in 1..Len(dp.decisions) :
                  IEKey(dp.wire_template[j]) \in dp.placement } }

\* C25 as stated: the decision for an element with a placement follows
\* from its type: transfer_fixlen for unsigned8 and signed8, for
\* macAddress and ipv6Address; the transfer of the byte order of the host
\* for the other integers, the dateTime types, float32 and ipv4Address;
\* transfer_boolean for boolean; for float64 the float-into-double
\* transfer of the host at wire length 4 and the fixed-length transfer
\* otherwise; for octetArray and string transfer_varlen at variable
\* length and transfer_fixlen_octets otherwise.
C25_KindByType == Compiled => KindsAre({ "unsigned8", "signed8" })

\* C25 amended: the same, but signed8 is one of the types that get the
\* transfer of the byte order of the host
C25_KindByType_signed8_endian == Compiled => KindsAre({ "unsigned8" })

\* a signed8 element compiled for a little-endian host
C25_Witness ==
    /\ Compiled
    /\ ~dp.big_endian
    /\ "signed8" \in PlacedTypes

\* the constructor has run for the template and placement under test
PlanDone ==
    /\ dp.kind \in { "execute", "plan" }
    /\ dp.stage \in { "planned", "done" }

NumericTypes ==
    { "unsigned8", "unsigned16", "unsigned32", "unsigned64", "signed8",
      "signed16", "signed32", "signed64", "float32", "float64",
      "dateTimeSeconds", "dateTimeMilliseconds", "dateTimeMicroseconds",
      "dateTimeNanoseconds" }

\* a length the type of the element cannot have on the wire
BadLength(ie) ==
    \/ /\ IETypeOf(ie) \in NumericTypes \cup { "boolean" }
       /\ ie.len > NativeSize(IETypeOf(ie))
    \/ IETypeOf(ie) = "macAddress" /\ ie.len # 6
    \/ IETypeOf(ie) = "ipv4Address" /\ ie.len # 4
    \/ IETypeOf(ie) = "ipv6Address" /\ ie.len # 16

\* the elements of the wire template under test that have a placement
PlacedElements ==
    { dp.wire_template[i] :
        i \in { j \in 1..Len(dp.wire_template) :
                  IEKey(dp.wire_template[j]) \in dp.placement } }

\* the fixed-length transfers of a compiled plan fit their destinations
FixlenFits ==
    Compiled =>
        \A i \in 1..Len(dp.plan) :
          dp.plan[i].type \in { "transfer_fixlen",
                                "transfer_fixlen_endianness" } =>
            dp.plan[i].length <= dp.plan[i].destination_size

\* C26: a fixed-length transfer of a compiled plan never has a length
\* greater than the size of its destination, and the constructor ends with
\* a FormatError, compiling nothing, when an element with a placement is
\* numeric or boolean and longer than its native type, a macAddress not of
\* 6 octets, an ipv4Address not of 4 or an ipv6Address not of 16.
C26_LengthFitsOrFatal ==
    /\ FixlenFits
    /\ PlanDone /\ (\E ie \in PlacedElements : BadLength(ie)) =>
         dp.plan = <<>> /\ dp.fault = "throw"

\* the types whose case of the constructor begins with an assertion
AssertedTypes ==
    { "float64", "dateTimeMicroseconds", "dateTimeNanoseconds" }

\* the same for templates without a placed element of those types
C26_LengthFitsOrFatal_unasserted ==
    /\ FixlenFits
    /\ /\ PlanDone
       /\ \E ie \in PlacedElements : BadLength(ie)
       /\ \A ie \in PlacedElements : IETypeOf(ie) \notin AssertedTypes
       => dp.plan = <<>> /\ dp.fault = "throw"

\* a dateTimeMicroseconds of 9 octets ends the constructor by assertion
C26_Witness ==
    /\ PlanDone
    /\ IE_USEC_9 \in PlacedElements
    /\ dp.fault = "assert"

(***************************************************************************)
(* The field count of a template record                                    *)
(***************************************************************************)
\* the handler has seen the record of template 258, which announces two
\* field specifiers in a set that has room for one
CutShortRecordSeen == TemplateCutShort /\ d.current_template_id = 258

\* C27: a template record whose field count is not the number of field
\* specifiers that are there is reported as a format_error (the handler
\* reports through CH_REPORT_ERROR, which clears parse_is_good).
C27_FieldCountMismatch == CutShortRecordSeen => ~d.parse_is_good

\* the record is given up without any error reported: no error of the
\* parser, the handler still good, its template still under construction
C27_Witness ==
    /\ CutShortRecordSeen
    /\ d.parse_is_good
    /\ errs = <<>>
    /\ d.current_wire_template # NULL

\* what the callbacks do when a parser calls field_specifier more or less
\* often than start_template_record was told: format_error, and only then
C27_CallbacksReportMismatch ==
    dp.stage = "recorded" =>
        /\ d.fault = "none"
        /\ (d.ret = "format_error") = (dp.r.field_count # Len(dp.l.ies))
        /\ d.parse_is_good = (d.ret = "ok")

(***************************************************************************)
(* Equality of IETemplates                                                 *)
(***************************************************************************)
\* the same number of elements and the same InfoElement at every position
SameElements(l, r) ==
    /\ Len(l) = Len(r)
    /\ \A i \in 1..Len(l) : l[i] = r[i]

ProperPrefix(l, r) == Len(l) < Len(r) /\ SubSeq(r, 1, Len(l)) = l

\* the same but for the length of the element at one position
DifferInOneLength(l, r) ==
    /\ Len(l) = Len(r)
    /\ \E i \in 1..Len(l) :
         /\ IEKey(l[i]) = IEKey(r[i])
         /\ l[i].len # r[i].len
         /\ \A j \in 1..Len(l) : j # i => l[j] = r[j]

\* the template announced has taken the place of the registered one
AnnouncedOverwrites ==
    /\ d.wire_templates[make_template_key(d, 256)] = 2
    /\ d.heap[2] = [live |-> TRUE, ies |-> dp.r.ies]
    /\ d.heap[1] = Freed

\* C28: two IETemplates are equal exactly when they have the same number
\* of elements and the same canonical InfoElement at every position;
\* equality is reflexive and symmetric and operator!= is its negation; a
\* template is not equal to a proper prefix of itself, nor to one that
\* differs in the length of one element, and announcing the latter under
\* the id of the former overwrites it.
C28_TemplateEquality ==
    /\ dp.stage = "compared" =>
         /\ dp.eq = SameElements(dp.l.ies, dp.r.ies)
         /\ dp.self
         /\ dp.rev = dp.eq
         /\ dp.ne = ~dp.eq
         /\ ProperPrefix(dp.l.ies, dp.r.ies)
            \/ ProperPrefix(dp.r.ies, dp.l.ies) => ~dp.eq
         /\ DifferInOneLength(dp.l.ies, dp.r.ies) => ~dp.eq
    /\ dp.stage = "announced" =>
         /\ DifferInOneLength(dp.l.ies, dp.r.ies) => AnnouncedOverwrites
         /\ SameElements(dp.l.ies, dp.r.ies) => ~AnnouncedOverwrites

\* a template with an octetArray of 3 octets announced under the id of
\* one with the same element at variable length
C28_Witness ==
    /\ dp.stage = "announced"
    /\ DifferInOneLength(dp.l.ies, dp.r.ies)
    /\ AnnouncedOverwrites

(***************************************************************************)
(* The warning about an incomplete match                                   *)
(***************************************************************************)
\* no key is warned about twice unless a template was installed under it
\* in between
WarnedOncePerTemplate(log) ==
    \A i, j \in 1..Len(log) :
      i < j /\ log[i][1] = "warn" /\ log[j] = log[i] =>
        \E m \in (i + 1)..(j - 1) : log[m] = << "install", log[i][2] >>

\* the data set of the last message was decoded with a placement that has
\* no entry for some element of the wire template
PartialMatch ==
    /\ dp.stage = "handler" /\ dp.last = "data"
    /\ d.plan.placement # NULL
    /\ is_match(Placement(d.plan.placement), d.plan.ies) < Len(d.plan.ies)

\* C29: over the data sets of a wire template that a placement matches in
\* part, the incomplete-match warning is given at most once for the key
\* (observation domain, template id) of the template, with the cache of
\* matched templates or without, and each of the data sets is decoded: one
\* start_placement and end_placement for its record and no error.
C29_WarnedOnce ==
    dp.stage = "handler" =>
        /\ WarnedOncePerTemplate(dp.log)
        /\ PartialMatch =>
             /\ d.fault = "none"
             /\ d.ret = "ok"
             /\ d.pcalls = PlacementPairs(d.plan.placement, 1)

\* the same while every message is of observation domain 0
C29_WarnedOnce_domain0 ==
    dp.stage = "handler" /\ dp.domains \subseteq { 0 } =>
        /\ WarnedOncePerTemplate(dp.log)
        /\ PartialMatch =>
             /\ d.fault = "none"
             /\ d.ret = "ok"
             /\ d.pcalls = PlacementPairs(d.plan.placement, 1)

\* the same with the cache of matched templates in use
C29_WarnedOnce_cached ==
    dp.stage = "handler" /\ d.use_matched_template_cache =>
        WarnedOncePerTemplate(dp.log)

\* a second warning for a key whose template is the one it was
C29_Witness ==
    /\ dp.stage = "handler"
    /\ ~WarnedOncePerTemplate(dp.log)
    /\ PartialMatch
    /\ ~d.use_matched_template_cache

\* a turn of the set loop is taken and parse goes on: Parse_Set without the
\* long_set error
SetTurn ==
    /\ pc = "sets"
    /\ cur + kIpfixSetHeaderLen <= message_size
    /\ calls' # calls
    /\ errs' = errs

\* C30: parse terminates on every finite input: every turn of the set loop
\* moves the cursor on by at least the 4 octets of the set header, also
\* when the set's length field is less than 4, the length the set callback
\* is given is never more than the octets that remain in the message after
\* the set header, and no turn is repeated without end.
C30_SetLoopAdvances ==
    [][SetTurn =>
         /\ cur' >= cur + kIpfixSetHeaderLen
         /\ set_content_length(decode_uint16(message, cur + 2))
               <= message_size - (cur + kIpfixSetHeaderLen)
         /\ pc' # FaultPc("hang")]_vars

\* C30, for the sets whose length field is at least the set header's
\* length: the cursor moves on by the set's length, the callback is given
\* the octets after the header and no more than remain, and the loop goes
\* on
C30_SetLoopAdvances_from4 ==
    [][SetTurn /\ decode_uint16(message, cur + 2) >= kIpfixSetHeaderLen =>
         /\ cur' >= cur + kIpfixSetHeaderLen
         /\ set_content_length(decode_uint16(message, cur + 2))
               <= message_size - (cur + kIpfixSetHeaderLen)
         /\ pc' # FaultPc("hang")]_vars

\* a set whose length field is 0 was taken: the cursor is where it was and
\* the loop takes the same turn again
C30_Witness ==
    /\ pc = FaultPc("hang")
    /\ cur + kIpfixSetHeaderLen <= message_size
    /\ decode_uint16(message, cur + 2) = 0
    /\ Len(calls) >= 3

\* a set whose length field is 3 was taken and parse went on to the end of
\* the message
C30_ShortSetPassed ==
    /\ pc = "read"
    /\ curmsg.breaks = "short_set"
    /\ Len(calls) = 6

\* the record loop of start_data_set has run on the data set under test
RecordLoopRun == DataSetDecoded /\ Len(d.loop) > 0

\* every turn of the record loop found cur + length = buf_end with the
\* length within 16 bits, and began behind the turn before it
LoopInvariant ==
    /\ \A i \in 1..Len(d.loop) :
         /\ d.loop[i].cur + d.loop[i].length = d.loop[i].buf_end
         /\ d.loop[i].length <= dp.length
    /\ \A i \in 2..Len(d.loop) : d.loop[i].cur > d.loop[i - 1].cur

\* C31: start_data_set terminates for every wire template and every data
\* set: every turn of the record loop consumes at least one octet, and
\* cur + remaining length = buf_end holds at every turn without the 16-bit
\* remaining length wrapping around, also when every field of the wire
\* template has encoded length 0 and when the template has only
\* variable-length fields.
C31_RecordLoopTerminates ==
    DataSetDecoded => d.fault # "hang" /\ LoopInvariant

\* C31, for the wire templates that have a field of encoded length other
\* than 0: the loop ends, every turn consumes at least one octet and
\* cur + remaining length = buf_end at every turn
C31_RecordLoopTerminates_nonzero ==
    DataSetDecoded
    /\ (\E i \in DOMAIN dp.wire_template : dp.wire_template[i].len # 0)
    => d.fault # "hang" /\ LoopInvariant

\* a data set of a template whose only field has encoded length 0 was
\* given to the record loop
C31_Witness ==
    /\ RecordLoopRun
    /\ \A i \in DOMAIN dp.wire_template : dp.wire_template[i].len = 0
    /\ d.fault = "hang"

\* a data set of two records of a template with variable-length fields
\* only was decoded to its end
C31_VarlenOnly ==
    /\ RecordLoopRun
    /\ \A i \in DOMAIN dp.wire_template :
         dp.wire_template[i].len = kIpfixVarlen
    /\ d.fault = "none"
    /\ Len(d.loop) >= 2

\* the placement an uncached scan of the registered placement templates
\* chooses for the wire template at a
Scan(a) ==
    IF first_match(d, d.heap[a].ies, 1) = 0 THEN NULL
    ELSE d.placement_templates[first_match(d, d.heap[a].ies, 1)]

\* C32: in every state of the handler each key of matched_templates is a
\* wire template now stored in wire_templates, never a deleted one, and
\* with the matched-template cache in use match_placement_template returns
\* for every stored wire template the placement an uncached scan returns,
\* after placement registrations, template installs, duplicates,
\* overwrites and data sets in any order.
C32_CacheAgreesWithScan ==
    /\ \A a \in DOMAIN d.matched_templates :
         /\ d.heap[a].live
         /\ a \in Range(d.wire_templates)
    /\ d.use_matched_template_cache =>
         \A k \in DOMAIN d.wire_templates :
            match_placement_template(d, 256, d.wire_templates[k]).placement
              = Scan(d.wire_templates[k])

\* with the cache in use a data set was decoded with the cached placement
\* of its template, an older template having been overwritten and deleted
\* and two placement templates being registered
C32_Witness ==
    /\ dp.stage = "handler"
    /\ dp.last = "data"
    /\ d.use_matched_template_cache
    /\ d.plan.cached
    /\ Len(d.placement_templates) = 2
    /\ \E a \in 1..Len(d.heap) : ~d.heap[a].live
    /\ Len(d.pcalls) > 0

\* C33: for every field specifier process_template_set reads from the
\* wire the assertions of field_specifier hold: a template set whose field
\* specifier has the enterprise bit set and the enterprise number 0 is
\* handled without aborting the process.
C33_EnterpriseZeroHandled ==
    curmsg.breaks = "enterprise_zero" => pc # FaultPc("assert")

\* C33, for the field specifiers whose enterprise number is not 0 when
\* the enterprise bit is set: the template set is handled and the template
\* installed
C33_EnterpriseNonZeroHandled ==
    /\ curmsg.breaks = "none"
    /\ pc = "read"
    /\ Len(curmsg.sets) = 1
    /\ curmsg.sets[1].ies = << IE_E, IE_A >>
    => /\ d.fault = "none"
       /\ find_wire_template(d, 258) # NULL
       /\ d.heap[find_wire_template(d, 258)].ies = << IE_E, IE_A >>

\* the template set with the enterprise bit set and enterprise number 0
\* was given to start_template_set, which did not return
C33_Witness ==
    /\ curmsg.breaks = "enterprise_zero"
    /\ calls = << "start_message", "start_template_set" >>
    /\ d.fault = "assert"
    /\ d.current_field_no = 0
    /\ d.current_wire_template # NULL

\* the last entry of a non-empty sequence
Last(s) == s[Len(s)]

\* the record for which start_placement, or end_placement, returns an
\* error context was reached by the record loop
StartRefused ==
    DataSetDecoded /\ d.collector.start_error > 0
    /\ Len(d.loop) >= d.collector.start_error

EndRefused ==
    DataSetDecoded /\ d.collector.end_error > 0
    /\ Len(d.loop) >= d.collector.end_error /\ d.fault = "none"

\* the destinations written for the records before record k
WritesBefore(k) ==
    Cardinality({ i \in 1..Len(d.events) :
                    /\ d.events[i][1] = "write"
                    /\ Cardinality({ j \in 1..i :
                                       d.events[j][1] = "start_placement" })
                         < k })

\* C34: when start_placement returns an error context for a record,
\* start_data_set returns that error at once: the plan is not executed for
\* the record, no destination is written, end_placement is not called and
\* no further record of the set is processed; and when end_placement
\* returns an error, no further record of the set is decoded.
C34_CallbackErrorEndsSet ==
    /\ StartRefused =>
         /\ d.ret = "callback_error"
         /\ d.fault = "none"
         /\ Len(d.loop) = d.collector.start_error
         /\ Len(d.pcalls) = 2 * d.collector.start_error - 1
         /\ Last(d.pcalls)[1] = "start_placement"
         /\ Last(d.events)[1] = "start_placement"
         /\ d.writes = WritesBefore(d.collector.start_error)
    /\ EndRefused =>
         /\ d.ret = "callback_error"
         /\ Len(d.loop) = d.collector.end_error
         /\ Len(d.pcalls) = 2 * d.collector.end_error
         /\ Last(d.pcalls)[1] = "end_placement"
         /\ Last(d.events)[1] = "end_placement"

\* start_placement returned an error for the second of two records that
\* are followed by padding: the first was decoded and written
C34_Witness ==
    /\ StartRefused
    /\ d.collector.start_error = 2
    /\ RecordCount = 2
    /\ d.writes > 0
    /\ Len(dp.buf) > Len(dp.fields)

\* end_placement returned an error for the first of two records
C34_EndWitness ==
    /\ EndRefused
    /\ d.collector.end_error = 1
    /\ RecordCount = 2
    /\ d.writes > 0

\* the template set with the record of field count 0 is handled
EmptyRecordTurn ==
    /\ pc = "sets"
    /\ curmsg.breaks = "field_count_0"
    /\ calls' # calls

\* C35: a template record with field count 0 leaves the wire-template
\* registry, the matched-template cache and incomplete_template_ids as
\* they were: it installs no empty template and neither removes nor
\* replaces the template registered under its (domain, template id), the
\* registered templates keep their fields, and the record ends with no
\* template under construction.
C35_EmptyRecordChangesNothing ==
    [][EmptyRecordTurn =>
         /\ d'.fault = "none"
         /\ d'.wire_templates = d.wire_templates
         /\ d'.matched_templates = d.matched_templates
         /\ d'.incomplete_template_ids = d.incomplete_template_ids
         /\ \A k \in DOMAIN d.wire_templates :
              d'.heap[d.wire_templates[k]] = d.heap[d.wire_templates[k]]
         /\ \A k \in DOMAIN d'.wire_templates :
              d'.heap[d'.wire_templates[k]].ies # <<>>
         /\ d'.current_wire_template = NULL
         /\ d'.parse_is_good = d.parse_is_good]_vars

\* the record of field count 0 came for template 256 while that template
\* was registered, matched in part by a placement and marked incomplete
C35_Witness ==
    /\ curmsg.breaks = "field_count_0"
    /\ calls = << "start_message", "start_template_set", "end_template_set" >>
    /\ find_wire_template(d, 256) # NULL
    /\ find_wire_template(d, 256) \in DOMAIN d.matched_templates
    /\ make_template_key(d, 256) \in d.incomplete_template_ids
    /\ d.heap[find_wire_template(d, 256)].ies = << IE_A, IE_B >>

\* what reads return and when a datagram is received: the octets of a
\* read are of one datagram and as many as asked for; a read that asks for
\* more than the datagram in the buffer has left returns -1 and consumes
\* nothing; a datagram is received only when the one before is consumed
\* to its end, or after resync
ReadsWithinDatagram ==
    /\ \A i, j \in DOMAIN dp.last.octets :
         dp.last.octets[i][1] = dp.last.octets[j][1]
    /\ dp.last.ret >= 0 => Len(dp.last.octets) = dp.last.len
    /\ dp.last.len > dp.last.left =>
         dp.last.ret = -1 /\ dp.last.consumed = 0
    /\ dp.last.received =>
         \/ dp.last.read_before = dp.last.lenght_before
         \/ dp.last.resynced

\* C36: in every state of UDPInputSource 0 <= packet_read <= packet_lenght,
\* also after recvfrom has failed; a read never returns octets of two
\* datagrams; a read that asks for more octets than the current datagram
\* has left returns -1 and consumes nothing; and a datagram is received
\* only when the current one is consumed to its end, or after resync.
C36_DatagramBounds ==
    dp.stage = "udp" =>
      /\ 0 <= dp.packet_read /\ dp.packet_read <= dp.packet_lenght
      /\ ReadsWithinDatagram

\* C36 with the bounds on packet_read only while no recvfrom has failed
C36_DatagramBounds_received ==
    dp.stage = "udp" =>
      /\ dp.packet_lenght # -1 =>
           0 <= dp.packet_read /\ dp.packet_read <= dp.packet_lenght
      /\ ReadsWithinDatagram

\* recvfrom has failed in the last read
C36_Witness ==
    /\ dp.stage = "udp"
    /\ dp.last.received
    /\ dp.packet_lenght = -1
    /\ dp.last.ret = -1
    /\ dp.nrecv = 2

\* after a failed recvfrom no datagram is received any more: the reads
\* that follow return -1 without calling recvfrom
C36_StuckAfterFailure ==
    /\ dp.stage = "udp"
    /\ dp.packet_lenght = -1
    /\ ~dp.last.received
    /\ dp.last.len = 0
    /\ dp.last.ret = -1

\* C37: given the same results of read and the same calls of
\* advance_message_offset, TCPInputSource and FileInputSource report the
\* same get_message_offset, and it is the number of octets returned by the
\* reads before the most recent advance_message_offset.
C37_SameMessageOffset ==
    pc = "offsets" =>
        /\ get_message_offset(dp.tcp) = get_message_offset(dp.file)
        /\ get_message_offset(dp.tcp) = dp.advanced

\* C37, of FileInputSource alone: get_message_offset is the number of
\* octets returned by the reads before the most recent
\* advance_message_offset.
C37_FileMessageOffset ==
    pc = "offsets" => get_message_offset(dp.file) = dp.advanced

\* C37: advance_message_offset was called after reads that returned octets
C37_Witness ==
    /\ pc = "offsets"
    /\ dp.nadvance > 0
    /\ dp.advanced > 0

\* C37: TCPInputSource reports 0 after two messages were read
C37_TCPStaysAtZero ==
    /\ pc = "offsets"
    /\ dp.nadvance = 2
    /\ dp.advanced > 2
    /\ dp.returned > dp.advanced
    /\ get_message_offset(dp.tcp) = 0

\* C38: under fair scheduling Imp::stop returns: once run is false the
\* worker does not stay blocked in next_mbuf, no wake-up being lost between
\* its test of run and its wait on the condition variable.
C38_StopReturns ==
    (pc = "imp" /\ ~dp.run) ~> (dp.spc = "returned")

\* C38, but for the lost wake-up: under fair scheduling, once run is false
\* stop returns or the worker is blocked on the condition variable with run
\* false and nothing to wake it.
C38_StopReturnsUnlessBlocked ==
    (pc = "imp" /\ ~dp.run)
        ~> (dp.spc = "returned" \/ (dp.wpc = "blocked" /\ dp.waiting))

\* C38: stop has set run to false and notified, and the worker, which
\* tested run before that, waits on the condition variable
C38_Witness ==
    /\ pc = "imp"
    /\ ~dp.run
    /\ dp.spc = "join"
    /\ dp.wpc = "blocked"
    /\ dp.waiting
    /\ dp.woken = "never"
    /\ \A p \in Producers : dp.ppc[p] = "idle" /\ dp.sent[p] = MaxMbufs

\* the buffers the worker has taken from the queue
Taken == IF dp.mb = NoMbuf THEN dp.collected
         ELSE Append(dp.collected, dp.mb)

\* C39: the buffers given to enqueue_mbuf by the producers are handed to
\* collect in the order they were enqueued and each at most once, the queue
\* is only accessed by the thread that holds its mutex, and once next_mbuf
\* has observed run == false no further buffer is collected, also with
\* buffers left in the queue.
C39_CollectedInOrder ==
    pc = "imp" =>
        /\ IsPrefix(dp.collected, dp.enqueued)
        /\ Taken \o dp.mbq = dp.enqueued
        /\ \A i, j \in 1..Len(dp.collected) :
               dp.collected[i] = dp.collected[j] => i = j
        /\ ~dp.unlocked_access
        /\ dp.wpc # "pop_empty"
        /\ dp.observed_stop =>
               /\ Len(dp.collected) = dp.collected_then
               /\ dp.mb = NoMbuf
               /\ dp.wpc = "exited"

\* C39: buffers of both producers were collected, then next_mbuf observed
\* run == false with a buffer in the queue
C39_Witness ==
    /\ pc = "imp"
    /\ dp.observed_stop
    /\ Len(dp.mbq) > 0
    /\ Len(dp.collected) >= 2
    /\ { b[1] : b \in Range(dp.collected) } = Producers
    /\ dp.spc = "returned"

====
